---- MODULE Spec2Model ----
(***************************************************************************)
(* A model of enhanced_insights.py: the session analytics pipeline of      *)
(* main() (setup, load loop, dry run, batched facet extraction with the    *)
(* facet cache, warmup filter, aggregation) and the two-phase report       *)
(* synthesis of generate_insights().                                       *)
(*                                                                         *)
(* Spec        the pipeline, run after run over one transcript store and   *)
(*             one facet cache; generate_insights is one step in it.       *)
(* SpecReport  generate_insights alone, call by call.                      *)
(* SpecChunk, SpecJson, SpecMetrics, SpecAggregate: the chunk loop of      *)
(*             summarize_long_transcript, extract_json_object,             *)
(*             extract_session_metrics and aggregate_data, each alone.     *)
(* SpecSummarize  summarize_long_transcript, call by call.                 *)
(* SpecContent    the scan of the user turns' content lists in             *)
(*             extract_session_metrics (tool errors and their categories). *)
(***************************************************************************)
EXTENDS Integers, Sequences, FiniteSets, TLC

VARIABLES
    store,          \* the transcript store: the session files discover_sessions finds
    cache,          \* FACETS_DIR: session id -> cache file
    run,            \* number of runs of main() started so far
    args,           \* parse_args(): dry_run, after, and whether the credentials load
    pc,             \* where main() is
    sessions,       \* main: sessions (after discovery and the filters)
    i,              \* main: index of the load loop
    all_metrics,    \* main: all_metrics
    facets_map,     \* main: facets_map
    sessions_needing_facets, \* main: sessions_needing_facets
    batch_start,    \* main: batch_start of the batch in the pool
    job,            \* one future per item of to_process: the worker's position and result
    saving,         \* the facet save_facet is writing (between os.open and json.dump)
    filtered_metrics, \* main: filtered_metrics
    filtered_facets,  \* main: filtered_facets
    agg_data,       \* main: agg_data (the two counts)
    exit_status,    \* how the last run ended: "running", 0, 1
    abort_cause,    \* what ended the run early
    cache0,         \* the cache as it was when the run started
    calls,          \* text-generation calls issued in this run, per session id
    report_calls,   \* text-generation calls of generate_insights in this run
    writes,         \* cache files written (json.dump completed) in this run, per session id
    sec,            \* generate_insights: one future per report prompt
    results,        \* generate_insights: results
    glance,         \* generate_insights: position of the at-a-glance call
    glance_data,    \* generate_insights: the section excerpts appended to glance_data
    glance_after,   \* the section futures as they were when the at-a-glance call was issued
    glance_resp,    \* the response the at-a-glance call got
    glance_calls,   \* at-a-glance calls issued in this run
    transcript,     \* summarize_long_transcript: transcript
    chunk_size,     \* summarize_long_transcript: the step of the chunk loop
    chunk_i,        \* summarize_long_transcript: i of the chunk loop
    chunks,         \* summarize_long_transcript: chunks
    json_text,      \* extract_json_object: text
    json_tree,      \* the JSON object serialized in text (None: text is of another form)
    json_idx,       \* extract_json_object: idx
    json_result,    \* extract_json_object: what it returns
    json_pc,        \* where extract_json_object is
    messages,       \* extract_session_metrics: messages
    msg_i,          \* extract_session_metrics: position of the loop over messages
    user_msg_count, \* extract_session_metrics: user_msg_count
    last_assistant_ts, \* extract_session_metrics: last_assistant_ts
    start_time,     \* extract_session_metrics: start_time
    end_time,       \* extract_session_metrics: end_time
    response_times, \* extract_session_metrics: response_times
    duration_minutes, \* extract_session_metrics: duration_minutes
    input_tokens,   \* extract_session_metrics: input_tokens
    output_tokens,  \* extract_session_metrics: output_tokens
    metrics_pc,     \* where extract_session_metrics is
    agg_session_metrics, \* aggregate_data: session_metrics
    agg_facets_map, \* aggregate_data: facets_map
    sm_i,           \* aggregate_data: position of the loop over session_metrics
    data,           \* aggregate_data: data
    all_response_times, \* aggregate_data: all_response_times
    agg_pc,         \* where aggregate_data is
    summaries,      \* summarize_long_transcript: summaries
    sum_sent,       \* the chunks sent in summarization calls so far, in order
    sum_resps,      \* the responses of these calls
    sum_result,     \* summarize_long_transcript: what it returns
    sum_pc,         \* where summarize_long_transcript is
    user_contents,  \* the content of the user turns of the session being scanned
    turn_i,         \* extract_session_metrics: the user turns entered so far
    item_i,         \* extract_session_metrics: position of the loop over content
    has_text,       \* extract_session_metrics: has_text
    tool_errors,    \* extract_session_metrics: tool_errors
    tool_error_categories, \* extract_session_metrics: tool_error_categories
    content_pc      \* where the user-turn branch of extract_session_metrics is

\* the locals of the chunk loop of summarize_long_transcript
chunkVars == << transcript, chunk_size, chunk_i, chunks >>

\* the locals of the functions that are checked on their own
\* the locals of extract_json_object
jsonVars == << json_text, json_tree, json_idx, json_result, json_pc >>

\* the locals of extract_session_metrics
metricsVars == << messages, msg_i, user_msg_count, last_assistant_ts, start_time,
                 end_time, response_times, duration_minutes, input_tokens,
                 output_tokens, metrics_pc >>

\* the locals of aggregate_data
aggVars == << agg_session_metrics, agg_facets_map, sm_i, data, all_response_times,
             agg_pc >>

\* the locals of summarize_long_transcript after the chunk loop
sumVars == << summaries, sum_sent, sum_resps, sum_result, sum_pc >>

\* the locals of the user-turn branch of extract_session_metrics
contentVars == << user_contents, turn_i, item_i, has_text, tool_errors,
                  tool_error_categories, content_pc >>

pureVars == << chunkVars, jsonVars, metricsVars, aggVars, sumVars, contentVars >>

vars == << store, cache, run, args, pc, sessions, i, all_metrics, facets_map,
           sessions_needing_facets, batch_start, job, saving, filtered_metrics,
           filtered_facets, agg_data, exit_status, abort_cause, cache0, calls,
           report_calls, writes, sec, results, glance, glance_data, glance_after,
           glance_resp,
           glance_calls, pureVars >>

reportVars == << sec, results, glance, glance_data, glance_after, glance_resp,
                glance_calls >>

\* the variables of main() and generate_insights
mainVars == << store, cache, run, args, pc, sessions, i, all_metrics, facets_map,
               sessions_needing_facets, batch_start, job, saving, filtered_metrics,
               filtered_facets, agg_data, exit_status, abort_cause, cache0, calls,
               report_calls, writes, reportVars >>

(***************************************************************************)
(* Bounds of the model.                                                    *)
(***************************************************************************)
\* number of session files in the transcript store
NumFiles == 3
\* runs of main() in one behaviour
MaxRuns == 2
\* FACET_BATCH_SIZE is 5 in the source; the model runs the same code with a smaller pool
FACET_BATCH_SIZE == 2
\* at most this many files of the store are not plain short sessions
MaxOddFiles == 1
\* chunks of a transcript longer than LONG_SESSION_THRESHOLD
LongChunks == 2

MAX_SESSIONS_TO_PROCESS == 9999

SessionIds == {"s1", "s2"}

None == [none |-> TRUE]

(***************************************************************************)
(* Python truthiness of a value that is None or a JSON object.             *)
(***************************************************************************)
Truthy(v) == v # None /\ DOMAIN v # {}

(***************************************************************************)
(* Session files.  What main() does with a file depends on: whether        *)
(* load_session_messages returns any message, what is_insights_session     *)
(* and extract_session_metrics do with the messages, the two metrics the   *)
(* trivial filter reads, and what serialize_transcript returns.            *)
(***************************************************************************)
FileKinds == { "unreadable",     \* load_session_messages returns []
               "insights",       \* is_insights_session is True
               "bad_message",    \* "message" is no dict: is_insights_session raises
               "bad_usage",      \* "usage" is null: extract_session_metrics raises
               "no_turns",       \* messages, but no text-bearing user turn
               "trivial",        \* one text-bearing user turn
               "no_timestamps",  \* two text-bearing user turns, neither with a timestamp
               "bad_text",       \* a text item without "text": serialize_transcript raises
               "short",          \* transcript of at most LONG_SESSION_THRESHOLD characters
               "long" }          \* transcript of LongChunks chunks

MessagesOf(f) == IF f.kind = "unreadable" THEN << >> ELSE << f.kind >>

\* is_insights_session: msg["message"].get fails on a message that is no dict
is_insights_session_raises(f) == f.kind = "bad_message"

is_insights_session(f) == f.kind = "insights"

\* extract_session_metrics: usage.get fails when "usage" is null
extract_session_metrics_raises(f) == f.kind = "bad_usage"

extract_session_metrics(f) ==
    [ session_id |-> f.session_id,
      user_message_count |-> IF f.kind = "no_turns" THEN 0
                             ELSE IF f.kind = "trivial" THEN 1 ELSE 2,
      duration_minutes |-> IF f.kind \in {"no_turns", "no_timestamps"} THEN 0 ELSE 1 ]

\* the filter gone wrong: one user turn is enough
IsTrivial_one_turn(m) == m.user_message_count < 1 \/ m.duration_minutes < 1

\* the trivial-session filter of main
IsTrivial(m) == m.user_message_count < 2 \/ m.duration_minutes < 1

\* serialize_transcript: item['text'] fails on a text item without "text"
serialize_transcript_raises(f) == f.kind = "bad_text"

\* summarize_long_transcript: the number of chunks to summarize, none for a
\* transcript of at most LONG_SESSION_THRESHOLD characters
ChunksOf(f) == IF f.kind = "long" THEN LongChunks ELSE 0

\* discover_sessions keeps the list sorted by mtime, newest first
MTime(n) == NumFiles + 1 - n

Stores ==
    { s \in [1..NumFiles -> [session_id : SessionIds, kind : FileKinds,
                             mtime : 1..NumFiles]] :
        /\ s[1].session_id = "s1"
        /\ \A n \in 1..NumFiles : s[n].mtime = MTime(n)
        /\ Cardinality({n \in 1..NumFiles : s[n].kind # "short"}) <= MaxOddFiles }

(***************************************************************************)
(* Facets.  The objects the model may answer with: the empty object, a     *)
(* well-typed facet, a well-typed facet whose only goal is warmup_minimal, *)
(* and an object that breaks the schema (an outcome outside the closed     *)
(* set, a negative count).                                                 *)
(***************************************************************************)
Outcomes == {"fully_achieved", "mostly_achieved", "partially_achieved",
             "not_achieved", "unclear_from_transcript"}
Helpfulness == {"unhelpful", "slightly_helpful", "moderately_helpful",
                "very_helpful", "essential"}
SessionTypes == {"single_task", "multi_task", "iterative_refinement",
                 "exploration", "quick_question"}
PrimarySuccess == {"none", "fast_accurate_search", "correct_code_edits",
                   "good_explanations", "proactive_help", "multi_file_changes",
                   "good_debugging"}

EmptyObject == << >>

GoodObject ==
    [ outcome |-> "fully_achieved", claude_helpfulness |-> "very_helpful",
      session_type |-> "single_task", primary_success |-> "good_debugging",
      goal_categories |-> [fix_bug |-> 1],
      user_satisfaction_counts |-> [satisfied |-> 1],
      friction_counts |-> [buggy_code |-> 0] ]

WarmupObject ==
    [ outcome |-> "unclear_from_transcript", claude_helpfulness |-> "unhelpful",
      session_type |-> "quick_question", primary_success |-> "none",
      goal_categories |-> [warmup_minimal |-> 1, fix_bug |-> 0],
      user_satisfaction_counts |-> [unsure |-> 1],
      friction_counts |-> [buggy_code |-> 0] ]

BadObject ==
    [ outcome |-> "success!", claude_helpfulness |-> "very_helpful",
      session_type |-> "single_task", primary_success |-> "none",
      goal_categories |-> [fix_bug |-> 1],
      user_satisfaction_counts |-> [satisfied |-> 1],
      friction_counts |-> [buggy_code |-> 0 - 1] ]

ModelObjects == {EmptyObject, GoodObject, WarmupObject, BadObject}

\* the schema of FACET_SCHEMA
WellTyped(f) ==
    /\ {"outcome", "claude_helpfulness", "session_type", "primary_success",
         "goal_categories", "user_satisfaction_counts", "friction_counts"}
            \subseteq DOMAIN f
    /\ f.outcome \in Outcomes
    /\ f.claude_helpfulness \in Helpfulness
    /\ f.session_type \in SessionTypes
    /\ f.primary_success \in PrimarySuccess
    /\ \A k \in DOMAIN f.goal_categories : f.goal_categories[k] >= 0
    /\ \A k \in DOMAIN f.user_satisfaction_counts : f.user_satisfaction_counts[k] >= 0
    /\ \A k \in DOMAIN f.friction_counts : f.friction_counts[k] >= 0

\* facet["session_id"] = session_id
Tagged(obj, sid) ==
    [ k \in DOMAIN obj \cup {"session_id"} |->
        IF k = "session_id" THEN sid ELSE obj[k] ]

(***************************************************************************)
(* A response of the text-generation call: the call raises, or returns a   *)
(* text; a text is given by what extract_json_object recovers from it.     *)
(***************************************************************************)
Responses ==
    { [kind |-> "error", object |-> None] } \cup
    { [kind |-> "text", object |-> o] : o \in {None} \cup ModelObjects }

\* extract_facets, from the response of its call on
ExtractResult(resp, sid) ==
    IF resp.kind = "error" THEN None
    ELSE IF ~Truthy(resp.object) THEN None
    ELSE Tagged(resp.object, sid)

(***************************************************************************)
(* The facet cache.  A cache file is absent, holds a complete JSON value,  *)
(* or is what os.open(O_TRUNC) leaves until json.dump has written it.      *)
(***************************************************************************)
Absent == [st |-> "absent", val |-> None]
Partial == [st |-> "partial", val |-> None]
Full(v) == [st |-> "full", val |-> v]

\* load_cached_facet gone wrong: the lookup never finds the entry
load_cached_facet_miss(session_id) == None

load_cached_facet(session_id) ==
    IF cache[session_id].st = "full" THEN cache[session_id].val ELSE None

(***************************************************************************)
(* Command line.  --after is absent (""), a date, or no date.              *)
(***************************************************************************)
AfterArgs == {"", "2026-02-01", "02/01/2026"}

\* the parse gone wrong: every text is taken for a date
strptime_accepts_all(after) == FALSE

\* datetime.strptime(args.after, "%Y-%m-%d") raises ValueError
strptime_raises(after) == after # "2026-02-01"

\* .timestamp() of the parsed date, in the unit of MTime
CutoffOf(after) == 2

\* discover_sessions: every file of the store, newest first
discover_sessions == store

Min(a, b) == IF a < b THEN a ELSE b

\* main: to_process = sessions_needing_facets[:MAX_SESSIONS_TO_PROCESS]
to_process ==
    SubSeq(sessions_needing_facets, 1,
           Min(Len(sessions_needing_facets), MAX_SESSIONS_TO_PROCESS))

\* the slice gone wrong: one item too long
BatchOf_wide(bs) ==
    { j \in 1..Len(to_process) : bs < j /\ j <= bs + FACET_BATCH_SIZE + 1 }

\* main: the positions (from 1) of to_process[bs:bs + FACET_BATCH_SIZE]
BatchOf(bs) == { j \in 1..Len(to_process) : bs < j /\ j <= bs + FACET_BATCH_SIZE }

\* the session file of item j of to_process
ItemFile(j) == sessions[to_process[j]]

\* a future of the batch pool: where its worker is, the chunk it summarizes,
\* and its result
IdleJob == [pc |-> "idle", k |-> 0, result |-> None]
SubmittedJob == [pc |-> "submitted", k |-> 0, result |-> None]

NoCalls == [s \in SessionIds |-> [summarize |-> 0, facet |-> 0]]
NoWrites == [s \in SessionIds |-> 0]
NoArgs == [dry_run |-> FALSE, after |-> "", creds_ok |-> TRUE]
NoAgg == [total_sessions |-> 0, sessions_with_facets |-> 0]

\* the report prompts, in the order of REPORT_PROMPTS
REPORT_PROMPTS == << "project_areas", "interaction_style", "what_works",
                     "friction_analysis", "suggestions", "on_the_horizon",
                     "fun_ending" >>
SectionNames == { REPORT_PROMPTS[n] : n \in 1..Len(REPORT_PROMPTS) }
REPORT_PARALLELISM == 7

\* the excerpt limit of line 1020 (3000 in the code)
EXCERPT_CHARS == 3

\* glance_data with no section excerpt appended
NoExcerpts == [ key \in {} |-> << >> ]

\* a future of the report pool: where it is, what the worker returned, and,
\* until the future is collected, the response its call got
IdleSection == [st |-> "idle", result |-> None, resp |-> None]

\* the chunk loop is not running
ChunkIdle ==
    /\ transcript = << >>
    /\ chunk_size = 1
    /\ chunk_i = 0
    /\ chunks = << >>

\* extract_json_object is not running
JsonIdle ==
    /\ json_text = << >>
    /\ json_tree = None
    /\ json_idx = 0
    /\ json_result = None
    /\ json_pc = "idle"

\* extract_session_metrics is not running
MetricsIdle ==
    /\ messages = << >>
    /\ msg_i = 1
    /\ user_msg_count = 0
    /\ last_assistant_ts = None
    /\ start_time = None
    /\ end_time = None
    /\ response_times = << >>
    /\ duration_minutes = 0
    /\ input_tokens = 0
    /\ output_tokens = 0
    /\ metrics_pc = "idle"

\* aggregate_data is not running
AggIdle ==
    /\ agg_session_metrics = << >>
    /\ agg_facets_map = << >>
    /\ sm_i = 1
    /\ data = << >>
    /\ all_response_times = << >>
    /\ agg_pc = "idle"

\* the summarization calls of summarize_long_transcript are not running
SumIdle ==
    /\ summaries = << >>
    /\ sum_sent = << >>
    /\ sum_resps = << >>
    /\ sum_result = None
    /\ sum_pc = "idle"

\* the content of no user turn is being scanned
ContentIdle ==
    /\ user_contents = << >>
    /\ turn_i = 0
    /\ item_i = 0
    /\ has_text = FALSE
    /\ tool_errors = 0
    /\ tool_error_categories = << >>
    /\ content_pc = "idle"

\* no function is being run on its own
PureIdle ==
    ChunkIdle /\ JsonIdle /\ MetricsIdle /\ AggIdle /\ SumIdle /\ ContentIdle

Init ==
    /\ store \in Stores
    /\ cache = [s \in SessionIds |-> Absent]
    /\ run = 0
    /\ args = NoArgs
    /\ pc = "idle"
    /\ sessions = << >>
    /\ i = 1
    /\ all_metrics = << >>
    /\ facets_map = << >>
    /\ sessions_needing_facets = << >>
    /\ batch_start = 0
    /\ job = << >>
    /\ saving = None
    /\ filtered_metrics = << >>
    /\ filtered_facets = << >>
    /\ agg_data = NoAgg
    /\ exit_status = 0
    /\ abort_cause = "none"
    /\ cache0 = cache
    /\ calls = NoCalls
    /\ report_calls = 0
    /\ writes = NoWrites
    /\ sec = [n \in SectionNames |-> IdleSection]
    /\ results = << >>
    /\ glance = "idle"
    /\ glance_data = NoExcerpts
    /\ glance_after = << >>
    /\ glance_resp = None
    /\ glance_calls = 0
    /\ PureIdle

\* the locals of main() as a new process has them
FreshMemory ==
    /\ sessions' = << >>
    /\ i' = 1
    /\ all_metrics' = << >>
    /\ facets_map' = << >>
    /\ sessions_needing_facets' = << >>
    /\ batch_start' = 0
    /\ job' = << >>
    /\ saving' = None
    /\ filtered_metrics' = << >>
    /\ filtered_facets' = << >>
    /\ agg_data' = NoAgg

\* an exception nobody catches ends main() with exit status 1
Abort(cause) ==
    /\ pc' = "exit"
    /\ exit_status' = 1
    /\ abort_cause' = cause

(***************************************************************************)
(* main, lines 1478-1523: arguments, credentials, discovery, filters.      *)
(* The project filter is not given.                                        *)
(***************************************************************************)
Setup ==
    /\ pc \in {"idle", "done", "exit", "crashed"}
    /\ run < MaxRuns
    /\ \E dry \in BOOLEAN, after \in AfterArgs, creds \in BOOLEAN :
        /\ args' = [dry_run |-> dry, after |-> after, creds_ok |-> creds]
        /\ run' = run + 1
        /\ cache0' = cache
        /\ calls' = NoCalls
        /\ report_calls' = 0
        /\ writes' = NoWrites
        /\ i' = 1
        /\ all_metrics' = << >>
        /\ facets_map' = << >>
        /\ sessions_needing_facets' = << >>
        /\ batch_start' = 0
        /\ job' = << >>
        /\ saving' = None
        /\ filtered_metrics' = << >>
        /\ filtered_facets' = << >>
        /\ agg_data' = NoAgg
        /\ IF ~creds
           THEN /\ sessions' = << >>
                /\ Abort("credentials")
           ELSE IF after # "" /\ strptime_raises(after)
           THEN /\ sessions' = discover_sessions
                /\ pc' = "exit"
                /\ exit_status' = 1
                /\ abort_cause' = "date"
           ELSE /\ sessions' =
                     IF after = "" THEN discover_sessions
                     ELSE SelectSeq(discover_sessions,
                                    LAMBDA s : s.mtime >= CutoffOf(after))
                /\ pc' = "load"
                /\ exit_status' = 0
                /\ abort_cause' = "none"
    /\ glance_calls' = 0
    /\ UNCHANGED << store, cache >>
    /\ UNCHANGED << sec, results, glance, glance_data, glance_after, glance_resp >>
    /\ UNCHANGED pureVars

(***************************************************************************)
(* main, lines 1525-1548: one iteration of the load loop.                  *)
(***************************************************************************)
LoadSession ==
    /\ pc = "load"
    /\ i <= Len(sessions)
    /\ LET sess == sessions[i]
           metrics == extract_session_metrics(sess)
           cached == load_cached_facet(sess.session_id)
       IN  IF MessagesOf(sess) = << >>
           THEN /\ i' = i + 1
                /\ UNCHANGED << pc, exit_status, abort_cause, all_metrics,
                                facets_map, sessions_needing_facets >>
           ELSE IF is_insights_session_raises(sess)
           THEN /\ Abort("self_check")
                /\ UNCHANGED << i, all_metrics, facets_map, sessions_needing_facets >>
           ELSE IF is_insights_session(sess)
           THEN /\ i' = i + 1
                /\ UNCHANGED << pc, exit_status, abort_cause, all_metrics,
                                facets_map, sessions_needing_facets >>
           ELSE IF extract_session_metrics_raises(sess)
           THEN /\ Abort("metrics")
                /\ UNCHANGED << i, all_metrics, facets_map, sessions_needing_facets >>
           ELSE IF IsTrivial(metrics)
           THEN /\ i' = i + 1
                /\ UNCHANGED << pc, exit_status, abort_cause, all_metrics,
                                facets_map, sessions_needing_facets >>
           ELSE /\ i' = i + 1
                /\ all_metrics' = Append(all_metrics, metrics)
                /\ IF Truthy(cached)
                   THEN /\ facets_map' = (sess.session_id :> cached) @@ facets_map
                        /\ UNCHANGED sessions_needing_facets
                   ELSE /\ sessions_needing_facets' = Append(sessions_needing_facets, i)
                        /\ UNCHANGED facets_map
                /\ UNCHANGED << pc, exit_status, abort_cause >>
    /\ UNCHANGED << store, cache, run, args, sessions, batch_start, job, saving,
                    filtered_metrics, filtered_facets, agg_data, cache0, calls,
                    report_calls, writes >>
    /\ UNCHANGED reportVars
    /\ UNCHANGED pureVars

(***************************************************************************)
(* main, lines 1550-1594 and 1605-1606: after the load loop.  A dry run    *)
(* prints the estimate and returns; otherwise the first batch is submitted *)
(* to its pool, or, with nothing to extract, the run goes on to the        *)
(* warmup filter.                                                          *)
(***************************************************************************)
\* line 1554: if args.dry_run
IsDryRun == args.dry_run

AfterLoad ==
    /\ pc = "load"
    /\ i > Len(sessions)
    /\ IF IsDryRun
       THEN /\ pc' = "done"
            /\ exit_status' = 0
            /\ UNCHANGED << job, batch_start >>
       ELSE IF sessions_needing_facets # << >>
       THEN /\ pc' = "collect"
            /\ batch_start' = 0
            /\ job' = [ j \in 1..Len(to_process) |->
                          IF j \in BatchOf(0) THEN SubmittedJob ELSE IdleJob ]
            /\ UNCHANGED exit_status
       ELSE /\ pc' = "filter"
            /\ UNCHANGED << job, batch_start, exit_status >>
    /\ UNCHANGED << store, cache, run, args, sessions, i, all_metrics, facets_map,
                    sessions_needing_facets, saving, filtered_metrics,
                    filtered_facets, agg_data, abort_cause, cache0, calls,
                    report_calls, writes >>
    /\ UNCHANGED reportVars
    /\ UNCHANGED pureVars

(***************************************************************************)
(* The workers of the batch's pool: _extract_one, that is extract_facets.  *)
(* A worker runs from the submit on, also while main() saves a facet or    *)
(* waits in the pool's shutdown.                                           *)
(***************************************************************************)
PoolOpen == pc \in {"collect", "saving", "unwinding"}

Issue(sid, what) ==
    calls' = [calls EXCEPT ![sid][what] = @ + 1]

\* extract_facets, lines 627-648: serialize, then issue the first call
WorkerStart(j) ==
    /\ PoolOpen
    /\ j \in DOMAIN job
    /\ job[j].pc = "submitted"
    /\ LET f == ItemFile(j)
       IN  IF serialize_transcript_raises(f)
           THEN /\ job' = [job EXCEPT ![j].pc = "raised"]
                /\ UNCHANGED calls
           ELSE IF ChunksOf(f) > 0
           THEN /\ job' = [job EXCEPT ![j].pc = "sum_call", ![j].k = 1]
                /\ Issue(f.session_id, "summarize")
           ELSE /\ job' = [job EXCEPT ![j].pc = "facet_call"]
                /\ Issue(f.session_id, "facet")
    /\ UNCHANGED << store, cache, run, args, pc, sessions, i, all_metrics,
                    facets_map, sessions_needing_facets, batch_start, saving,
                    filtered_metrics, filtered_facets, agg_data, exit_status,
                    abort_cause, cache0, report_calls, writes >>
    /\ UNCHANGED reportVars
    /\ UNCHANGED pureVars

\* summarize_long_transcript, lines 609-622: the call of chunk k returns or
\* raises (the summary or the raw slice is appended), and the next call is
\* issued: that of chunk k + 1, or the facet call of extract_facets
SummarizeReturn(j) ==
    /\ PoolOpen
    /\ j \in DOMAIN job
    /\ job[j].pc = "sum_call"
    /\ \E raised \in BOOLEAN :
         LET f == ItemFile(j)
         IN  IF job[j].k < ChunksOf(f)
             THEN /\ job' = [job EXCEPT ![j].k = @ + 1]
                  /\ Issue(f.session_id, "summarize")
             ELSE /\ job' = [job EXCEPT ![j].pc = "facet_call"]
                  /\ Issue(f.session_id, "facet")
    /\ UNCHANGED << store, cache, run, args, pc, sessions, i, all_metrics,
                    facets_map, sessions_needing_facets, batch_start, saving,
                    filtered_metrics, filtered_facets, agg_data, exit_status,
                    abort_cause, cache0, report_calls, writes >>
    /\ UNCHANGED reportVars
    /\ UNCHANGED pureVars

\* extract_facets, lines 649-657: the facet call returns or raises
FacetReturn(j) ==
    /\ PoolOpen
    /\ j \in DOMAIN job
    /\ job[j].pc = "facet_call"
    /\ \E resp \in Responses :
         job' = [job EXCEPT ![j].pc = "done",
                            ![j].result = ExtractResult(resp, ItemFile(j).session_id)]
    /\ UNCHANGED << store, cache, run, args, pc, sessions, i, all_metrics,
                    facets_map, sessions_needing_facets, batch_start, saving,
                    filtered_metrics, filtered_facets, agg_data, exit_status,
                    abort_cause, cache0, calls, report_calls, writes >>
    /\ UNCHANGED reportVars
    /\ UNCHANGED pureVars

\* the loop gone wrong: main takes the next future while save_facet is writing
MainCollects_busy == pc \in {"collect", "saving"}

\* main is at the head of the as_completed loop (line 1595): save_facet is
\* called in the loop, so the loop goes on when the write is over
MainCollects == pc = "collect"

\* the futures whose facet save_facet is writing
Writers == { j \in DOMAIN job : job[j].pc = "saving" }

(***************************************************************************)
(* main, lines 1595-1604: as_completed hands over a finished future.       *)
(* future.result() re-raises what the worker raised.  A facet is put into  *)
(* facets_map and save_facet opens its cache file (lines 581-583), which   *)
(* truncates it, or fails.                                                 *)
(***************************************************************************)
Collect(j) ==
    /\ MainCollects
    /\ j \in DOMAIN job
    /\ job[j].pc \in {"done", "raised"}
    /\ LET facet == job[j].result
           collected == [job EXCEPT ![j].pc = "collected"]
       IN  IF job[j].pc = "raised"
           THEN /\ pc' = "unwinding"
                /\ abort_cause' = "serialize"
                /\ job' = collected
                /\ UNCHANGED << facets_map, cache, saving >>
           ELSE IF Truthy(facet)
           THEN /\ facets_map' = (facet.session_id :> facet) @@ facets_map
                /\ \E opened \in BOOLEAN :
                     IF opened
                     THEN /\ cache' = [cache EXCEPT ![facet.session_id] = Partial]
                          /\ saving' = facet
                          /\ job' = [job EXCEPT ![j].pc = "saving"]
                          /\ pc' = "saving"
                          /\ UNCHANGED abort_cause
                     ELSE /\ pc' = "unwinding"
                          /\ abort_cause' = "cache_write"
                          /\ job' = collected
                          /\ UNCHANGED << cache, saving >>
           ELSE /\ job' = collected
                /\ UNCHANGED << pc, abort_cause, facets_map, cache, saving >>
    /\ UNCHANGED << store, run, args, sessions, i, all_metrics,
                    sessions_needing_facets, batch_start, filtered_metrics,
                    filtered_facets, agg_data, exit_status, cache0, calls,
                    report_calls, writes >>
    /\ UNCHANGED reportVars
    /\ UNCHANGED pureVars

\* save_facet, lines 584-585: json.dump writes the file, or fails
SaveDump ==
    /\ pc = "saving"
    /\ \E written \in BOOLEAN :
         IF written
         THEN /\ cache' = [cache EXCEPT ![saving.session_id] = Full(saving)]
              /\ writes' = [writes EXCEPT ![saving.session_id] = @ + 1]
              /\ pc' = "collect"
              /\ UNCHANGED abort_cause
         ELSE /\ pc' = "unwinding"
              /\ abort_cause' = "cache_write"
              /\ UNCHANGED << cache, writes >>
    /\ saving' = None
    /\ job' = [ j \in DOMAIN job |->
                  IF job[j].pc = "saving" THEN [job[j] EXCEPT !.pc = "collected"]
                  ELSE job[j] ]
    /\ UNCHANGED << store, run, args, sessions, i, all_metrics, facets_map,
                    sessions_needing_facets, batch_start, filtered_metrics,
                    filtered_facets, agg_data, exit_status, cache0, calls,
                    report_calls >>
    /\ UNCHANGED reportVars
    /\ UNCHANGED pureVars

\* the pool gone wrong: main leaves the with block without waiting
BatchCollected_no_wait(bs) == bs >= 0

\* the with block gone wrong: it is left with the first future collected
BatchCollected_any(bs) == \E j \in BatchOf(bs) : job[j].pc = "collected"

\* main, lines 1593-1604: the loop over as_completed ends, and the pool is
\* shut down, with every future of the batch collected
BatchCollected(bs) == \A j \in BatchOf(bs) : job[j].pc = "collected"

\* main, lines 1582-1594: the next batch is submitted after the pause, or the
\* loop over the batches ends

NextBatch ==
    /\ pc = "collect"
    /\ BatchCollected(batch_start)
    /\ IF batch_start + FACET_BATCH_SIZE < Len(to_process)
       THEN /\ batch_start' = batch_start + FACET_BATCH_SIZE
            /\ job' = [ j \in DOMAIN job |->
                          IF j \in BatchOf(batch_start + FACET_BATCH_SIZE)
                          THEN SubmittedJob ELSE job[j] ]
            /\ UNCHANGED pc
       ELSE /\ pc' = "filter"
            /\ UNCHANGED << batch_start, job >>
    /\ UNCHANGED << store, cache, run, args, sessions, i, all_metrics, facets_map,
                    sessions_needing_facets, saving, filtered_metrics,
                    filtered_facets, agg_data, exit_status, abort_cause, cache0,
                    calls, report_calls, writes >>
    /\ UNCHANGED reportVars
    /\ UNCHANGED pureVars

\* an exception in the with block: the pool's shutdown waits for the workers
\* of the batch, then the exception ends main()
Unwind ==
    /\ pc = "unwinding"
    /\ \A j \in BatchOf(batch_start) : job[j].pc \in {"done", "raised", "collected"}
    /\ pc' = "exit"
    /\ exit_status' = 1
    /\ UNCHANGED << store, cache, run, args, sessions, i, all_metrics, facets_map,
                    sessions_needing_facets, batch_start, job, saving,
                    filtered_metrics, filtered_facets, agg_data, abort_cause,
                    cache0, calls, report_calls, writes >>
    /\ UNCHANGED reportVars
    /\ UNCHANGED pureVars

(***************************************************************************)
(* main, lines 1608-1624: the warmup filter and the aggregation.           *)
(***************************************************************************)
Get(f, key, default) == IF key \in DOMAIN f THEN f[key] ELSE default

\* the filter gone wrong: a category counts whatever its count
is_warmup_only_any_count(session_id) ==
    IF session_id \notin DOMAIN facets_map THEN FALSE
    ELSE LET cats == Get(facets_map[session_id], "goal_categories", << >>)
         IN  DOMAIN cats = {"warmup_minimal"}

is_warmup_only(session_id) ==
    IF session_id \notin DOMAIN facets_map THEN FALSE
    ELSE LET cats == Get(facets_map[session_id], "goal_categories", << >>)
             active == { k \in DOMAIN cats : cats[k] > 0 }
         IN  active = {"warmup_minimal"}

\* the count gone wrong: the facets are counted before the warmup filter
aggregate_data_unfiltered(session_metrics, fmap) ==
    [ total_sessions |-> Len(session_metrics),
      sessions_with_facets |-> Cardinality(DOMAIN facets_map) ]

\* aggregate_data, lines 667-668
aggregate_data(session_metrics, fmap) ==
    [ total_sessions |-> Len(session_metrics),
      sessions_with_facets |-> Cardinality(DOMAIN fmap) ]

FilterAndAggregate ==
    /\ pc = "filter"
    /\ LET fm == SelectSeq(all_metrics, LAMBDA m : ~is_warmup_only(m.session_id))
           ff == [ k \in { s \in DOMAIN facets_map : ~is_warmup_only(s) } |->
                     facets_map[k] ]
       IN  /\ filtered_metrics' = fm
           /\ filtered_facets' = ff
           /\ agg_data' = aggregate_data(fm, ff)
    /\ pc' = "report"
    /\ UNCHANGED << store, cache, run, args, sessions, i, all_metrics, facets_map,
                    sessions_needing_facets, batch_start, job, saving,
                    exit_status, abort_cause, cache0, calls, report_calls, writes >>
    /\ UNCHANGED reportVars
    /\ UNCHANGED pureVars

(***************************************************************************)
(* main, lines 1626-1666: generate_insights with its calls (one per report *)
(* prompt and the at-a-glance call), the report files and the run summary. *)
(* SpecReport takes generate_insights apart.                               *)
(***************************************************************************)
ReportAndSummary ==
    /\ pc = "report"
    /\ report_calls' = Len(REPORT_PROMPTS) + 1
    /\ glance_calls' = 1
    /\ pc' = "done"
    /\ exit_status' = 0
    /\ UNCHANGED << store, cache, run, args, sessions, i, all_metrics, facets_map,
                    sessions_needing_facets, batch_start, job, saving,
                    filtered_metrics, filtered_facets, agg_data, abort_cause,
                    cache0, calls, writes >>
    /\ UNCHANGED << sec, results, glance, glance_data, glance_after, glance_resp >>
    /\ UNCHANGED pureVars

(***************************************************************************)
(* The process is killed (or the machine stops): its memory is gone, the   *)
(* cache files stay as they are.  The records of the run are dropped too.  *)
(***************************************************************************)
Running == pc \in {"load", "collect", "saving", "unwinding", "filter", "report"}

Crash ==
    /\ Running
    /\ FreshMemory
    /\ pc' = "crashed"
    /\ exit_status' = 1
    /\ abort_cause' = "killed"
    /\ args' = NoArgs
    /\ cache0' = cache
    /\ calls' = NoCalls
    /\ report_calls' = 0
    /\ writes' = NoWrites
    /\ glance_calls' = 0
    /\ UNCHANGED << store, cache, run >>
    /\ UNCHANGED << sec, results, glance, glance_data, glance_after, glance_resp >>
    /\ UNCHANGED pureVars

Next ==
    \/ Setup
    \/ LoadSession
    \/ AfterLoad
    \/ \E j \in 1..NumFiles : WorkerStart(j)
    \/ \E j \in 1..NumFiles : SummarizeReturn(j)
    \/ \E j \in 1..NumFiles : FacetReturn(j)
    \/ \E j \in 1..NumFiles : Collect(j)
    \/ SaveDump
    \/ NextBatch
    \/ Unwind
    \/ FilterAndAggregate
    \/ ReportAndSummary
    \/ Crash

Spec == Init /\ [][Next]_vars

(***************************************************************************)
(* generate_insights, lines 1001-1036, call by call.                       *)
(***************************************************************************)
\* the objects a report call may answer with
SectionObject == [narrative |-> "text"]

SectionResponses ==
    { [kind |-> "error", object |-> None] } \cup
    { [kind |-> "text", object |-> o] : o \in {None, EmptyObject, SectionObject} }

\* the worker gone wrong: a failed call leaves a placeholder
SectionResult_placeholder(resp) ==
    IF resp.kind = "error" THEN [error |-> "failed"]
    ELSE IF Truthy(resp.object) THEN resp.object
    ELSE None

\* generate_report_section, lines 953-965: the "result" of what it returns
SectionResult(resp) ==
    IF resp.kind = "error" THEN None
    ELSE IF Truthy(resp.object) THEN resp.object
    ELSE None

\* position of a prompt in REPORT_PROMPTS
PromptIndex(name) == CHOOSE n \in 1..Len(REPORT_PROMPTS) : REPORT_PROMPTS[n] = name

RunningSections == { n \in SectionNames : sec[n].st = "running" }

\* lines 1002-1006: every prompt is submitted; the pool runs up to
\* REPORT_PARALLELISM of them at once, and a running one has issued its call
SubmitSections ==
    /\ pc = "report"
    /\ \A n \in SectionNames : sec[n].st = "idle"
    /\ sec' = [ n \in SectionNames |->
                  [st |-> IF PromptIndex(n) <= REPORT_PARALLELISM
                          THEN "running" ELSE "queued",
                   result |-> None, resp |-> None] ]
    /\ report_calls' = report_calls + Min(Len(REPORT_PROMPTS), REPORT_PARALLELISM)
    /\ UNCHANGED << store, cache, run, args, pc, sessions, i, all_metrics,
                    facets_map, sessions_needing_facets, batch_start, job, saving,
                    filtered_metrics, filtered_facets, agg_data, exit_status,
                    abort_cause, cache0, calls, writes, results, glance,
                    glance_data, glance_after, glance_resp, glance_calls >>
    /\ UNCHANGED pureVars

\* generate_report_section: the call returns or raises; the worker takes the
\* next queued prompt, if any
SectionReturn(name) ==
    /\ pc = "report"
    /\ sec[name].st = "running"
    /\ \E resp \in SectionResponses :
         LET queued == { n \in SectionNames : sec[n].st = "queued" }
             next == IF queued = {} THEN "none"
                     ELSE CHOOSE n \in queued :
                            \A m \in queued : PromptIndex(n) <= PromptIndex(m)
         IN  /\ sec' = [ n \in SectionNames |->
                           IF n = name
                           THEN [st |-> "finished", result |-> SectionResult(resp),
                                 resp |-> resp]
                           ELSE IF n = next
                           THEN [st |-> "running", result |-> None, resp |-> None]
                           ELSE sec[n] ]
             /\ report_calls' = IF queued = {} THEN report_calls ELSE report_calls + 1
    /\ UNCHANGED << store, cache, run, args, pc, sessions, i, all_metrics,
                    facets_map, sessions_needing_facets, batch_start, job, saving,
                    filtered_metrics, filtered_facets, agg_data, exit_status,
                    abort_cause, cache0, calls, writes, results, glance,
                    glance_data, glance_after, glance_resp, glance_calls >>
    /\ UNCHANGED pureVars

\* lines 1007-1012: as_completed hands over a finished future
CollectSection(name) ==
    /\ pc = "report"
    /\ sec[name].st = "finished"
    /\ sec' = [sec EXCEPT ![name].st = "collected", ![name].resp = None]
    /\ results' = IF Truthy(sec[name].result)
                  THEN (name :> sec[name].result) @@ results
                  ELSE results
    /\ UNCHANGED << store, cache, run, args, pc, sessions, i, all_metrics,
                    facets_map, sessions_needing_facets, batch_start, job, saving,
                    filtered_metrics, filtered_facets, agg_data, exit_status,
                    abort_cause, cache0, calls, report_calls, writes, glance,
                    glance_data, glance_after, glance_resp, glance_calls >>
    /\ UNCHANGED pureVars

\* the key loop gone wrong: it runs over every report prompt
GlanceKeys_all == SectionNames

\* line 1017: the sections whose excerpts go into glance_data
GlanceKeys == {"project_areas", "what_works", "friction_analysis", "suggestions",
               "on_the_horizon"}

\* line 1020: json.dumps(section, indent=2), character by character (a key and
\* a value of the object count as one character each)
SectionDump(section) ==
    IF DOMAIN section = {} THEN << "{", "}" >>
    ELSE << "{", " ", "narrative", ":", section.narrative, " ", "}" >>

\* line 1020: the [:3000] of the excerpt
Excerpt(section) ==
    LET d == SectionDump(section)
    IN  SubSeq(d, 1, IF Len(d) < EXCERPT_CHARS THEN Len(d) ELSE EXCERPT_CHARS)

\* lines 1007-1012: the loop and the with block are left with every future
\* collected
AllSectionsCollected == \A n \in SectionNames : sec[n].st = "collected"

\* lines 1014-1027: glance_data is built and the at-a-glance call is issued

StartGlance ==
    /\ pc = "report"
    /\ glance = "idle"
    /\ AllSectionsCollected
    /\ glance_data' = [ key \in { k \in GlanceKeys :
                                      k \in DOMAIN results /\ Truthy(results[k]) }
                           |-> Excerpt(results[key]) ]
    /\ glance' = "running"
    /\ glance_after' = sec
    /\ glance_calls' = glance_calls + 1
    /\ report_calls' = report_calls + 1
    /\ UNCHANGED << store, cache, run, args, pc, sessions, i, all_metrics,
                    facets_map, sessions_needing_facets, batch_start, job, saving,
                    filtered_metrics, filtered_facets, agg_data, exit_status,
                    abort_cause, cache0, calls, writes, sec, results, glance_resp >>
    /\ UNCHANGED pureVars

\* lines 1028-1036: the at-a-glance call returns or raises; results is returned
GlanceReturn ==
    /\ pc = "report"
    /\ glance = "running"
    /\ \E resp \in SectionResponses :
         /\ results' = IF Truthy(SectionResult(resp))
                       THEN ("at_a_glance" :> SectionResult(resp)) @@ results
                       ELSE results
         /\ glance_resp' = resp
    /\ glance' = "done"
    /\ pc' = "done"
    /\ UNCHANGED << store, cache, run, args, sessions, i, all_metrics,
                    facets_map, sessions_needing_facets, batch_start, job, saving,
                    filtered_metrics, filtered_facets, agg_data, exit_status,
                    abort_cause, cache0, calls, report_calls, writes, sec,
                    glance_data, glance_after, glance_calls >>
    /\ UNCHANGED pureVars

\* generate_insights is entered in a run in which no facet was extracted
InitReport ==
    /\ store = [ n \in 1..NumFiles |->
                   [session_id |-> "s1", kind |-> "short", mtime |-> MTime(n)] ]
    /\ cache = [s \in SessionIds |-> Absent]
    /\ run = 1
    /\ args = NoArgs
    /\ pc = "report"
    /\ sessions = store
    /\ i = NumFiles + 1
    /\ all_metrics = [ n \in 1..NumFiles |-> extract_session_metrics(store[n]) ]
    /\ facets_map = << >>
    /\ sessions_needing_facets = [ n \in 1..NumFiles |-> n ]
    /\ batch_start = ((NumFiles - 1) \div FACET_BATCH_SIZE) * FACET_BATCH_SIZE
    /\ job = [ n \in 1..NumFiles |-> [pc |-> "collected", k |-> 0, result |-> None] ]
    /\ saving = None
    /\ filtered_metrics = all_metrics
    /\ filtered_facets = << >>
    /\ agg_data = aggregate_data(all_metrics, << >>)
    /\ exit_status = 0
    /\ abort_cause = "none"
    /\ cache0 = cache
    /\ calls = [s \in SessionIds |->
                  [summarize |-> 0, facet |-> IF s = "s1" THEN NumFiles ELSE 0]]
    /\ report_calls = 0
    /\ writes = NoWrites
    /\ sec = [n \in SectionNames |-> IdleSection]
    /\ results = << >>
    /\ glance = "idle"
    /\ glance_data = NoExcerpts
    /\ glance_after = << >>
    /\ glance_resp = None
    /\ glance_calls = 0
    /\ PureIdle

NextReport ==
    \/ SubmitSections
    \/ \E name \in SectionNames : SectionReturn(name)
    \/ \E name \in SectionNames : CollectSection(name)
    \/ StartGlance
    \/ GlanceReturn

SpecReport == InitReport /\ [][NextReport]_vars

(***************************************************************************)
(* The functions checked on their own.  main() is not running meanwhile.   *)
(***************************************************************************)
MainIdle ==
    /\ store = [ n \in 1..NumFiles |->
                   [session_id |-> "s1", kind |-> "short", mtime |-> MTime(n)] ]
    /\ cache = [s \in SessionIds |-> Absent]
    /\ run = 0
    /\ args = NoArgs
    /\ pc = "idle"
    /\ sessions = << >>
    /\ i = 1
    /\ all_metrics = << >>
    /\ facets_map = << >>
    /\ sessions_needing_facets = << >>
    /\ batch_start = 0
    /\ job = << >>
    /\ saving = None
    /\ filtered_metrics = << >>
    /\ filtered_facets = << >>
    /\ agg_data = NoAgg
    /\ exit_status = 0
    /\ abort_cause = "none"
    /\ cache0 = cache
    /\ calls = NoCalls
    /\ report_calls = 0
    /\ writes = NoWrites
    /\ sec = [n \in SectionNames |-> IdleSection]
    /\ results = << >>
    /\ glance = "idle"
    /\ glance_data = NoExcerpts
    /\ glance_after = << >>
    /\ glance_resp = None
    /\ glance_calls = 0

\* the characters of the texts of the model
Chars == {"a", "b"}

\* the texts of at most n characters
TextsUpTo(n) == UNION { [1..k -> Chars] : k \in 0..n }

(***************************************************************************)
(* summarize_long_transcript, lines 593-595: the chunk loop, for any       *)
(* transcript and any step.                                                *)
(***************************************************************************)
\* longest transcript
MaxLen == 5
\* largest step of the chunk loop
MaxChunk == 3

\* the slice gone wrong: it ends one character early
Slice_short(t, lo, hi) == SubSeq(t, lo + 1, Min(hi, Len(t)) - 1)

\* Python's t[lo:hi] for 0 <= lo <= hi
Slice(t, lo, hi) == SubSeq(t, lo + 1, Min(hi, Len(t)))

InitChunk ==
    /\ MainIdle
    /\ ContentIdle
    /\ JsonIdle
    /\ MetricsIdle
    /\ AggIdle
    /\ SumIdle
    /\ transcript \in TextsUpTo(MaxLen)
    /\ chunk_size \in 1..MaxChunk
    /\ chunk_i = 0
    /\ chunks = << >>

\* one iteration of: for i in range(0, len(transcript), CHUNK_SIZE)
ChunkStep ==
    /\ chunk_i < Len(transcript)
    /\ chunks' = Append(chunks, Slice(transcript, chunk_i, chunk_i + chunk_size))
    /\ chunk_i' = chunk_i + chunk_size
    /\ UNCHANGED << transcript, chunk_size >>
    /\ UNCHANGED << jsonVars, metricsVars, aggVars, sumVars, contentVars >>
    /\ UNCHANGED mainVars

NextChunk == ChunkStep

SpecChunk == InitChunk /\ [][NextChunk]_vars

(***************************************************************************)
(* summarize_long_transcript, lines 588-622, whole: the threshold, the     *)
(* chunk loop, one summarization call per chunk, the join.  The limits are *)
(* scaled down, in the order the source has them: the threshold above the  *)
(* chunk size, the chunk size above the length of the fallback slice.      *)
(***************************************************************************)
\* LONG_SESSION_THRESHOLD is 60000 in the source
LONG_SESSION_THRESHOLD == 4
\* CHUNK_SIZE is 50000 in the source
CHUNK_SIZE == 3
\* SUMMARIZE_MAX_TOKENS * 4 is 8192 in the source
SUMMARIZE_MAX_CHARS == 2
\* longest transcript given to summarize_long_transcript
MaxTranscript == 7

\* "\n\n---\n\n"
SEP == "---"

\* what a summarization call does: it raises, or returns a text
SumResponses ==
    { [kind |-> "error", text |-> << >>] } \cup
    { [kind |-> "text", text |-> t] : t \in { << >>, << "s" >>, << "s", "t", "u" >> } }

\* the loop gone wrong: a chunk whose call failed is left out
ChunkResult_drop(resp, chunk) ==
    IF resp.kind = "error" \/ resp.text = << >> THEN << >> ELSE resp.text

\* lines 616-620: text or chunk[:SUMMARIZE_MAX_TOKENS * 4], and the same slice
\* when the call raises
ChunkResult(resp, chunk) ==
    IF resp.kind = "error" \/ resp.text = << >>
    THEN Slice(chunk, 0, SUMMARIZE_MAX_CHARS)
    ELSE resp.text

\* line 622: "\n\n---\n\n".join(summaries)
RECURSIVE Join(_)
Join(ss) ==
    IF ss = << >> THEN << >>
    ELSE IF Len(ss) = 1 THEN ss[1]
    ELSE ss[1] \o << SEP >> \o Join(Tail(ss))

InitSummarize ==
    /\ MainIdle
    /\ ContentIdle
    /\ JsonIdle
    /\ MetricsIdle
    /\ AggIdle
    /\ transcript \in TextsUpTo(MaxTranscript)
    /\ chunk_size = CHUNK_SIZE
    /\ chunk_i = 0
    /\ chunks = << >>
    /\ summaries = << >>
    /\ sum_sent = << >>
    /\ sum_resps = << >>
    /\ sum_result = None
    /\ sum_pc = "enter"

\* lines 590-591: a transcript of at most LONG_SESSION_THRESHOLD characters
\* is returned as it is
SumEnter ==
    /\ sum_pc = "enter"
    /\ IF Len(transcript) <= LONG_SESSION_THRESHOLD
       THEN sum_result' = transcript /\ sum_pc' = "done"
       ELSE sum_pc' = "chunking" /\ UNCHANGED sum_result
    /\ UNCHANGED << summaries, sum_sent, sum_resps >>
    /\ UNCHANGED << chunkVars, jsonVars, metricsVars, aggVars, contentVars >>
    /\ UNCHANGED mainVars

\* lines 593-595: the chunk loop
SumChunk == sum_pc = "chunking" /\ ChunkStep

\* the chunk loop has ended; line 609: for chunk in chunks
SumChunked ==
    /\ sum_pc = "chunking"
    /\ chunk_i >= Len(transcript)
    /\ sum_pc' = "loop"
    /\ UNCHANGED << summaries, sum_sent, sum_resps, sum_result >>
    /\ UNCHANGED << chunkVars, jsonVars, metricsVars, aggVars, contentVars >>
    /\ UNCHANGED mainVars

\* lines 611-615: the call for the next chunk is issued
SumCall ==
    /\ sum_pc = "loop"
    /\ Len(summaries) < Len(chunks)
    /\ sum_sent' = Append(sum_sent, chunks[Len(summaries) + 1])
    /\ sum_pc' = "wait"
    /\ UNCHANGED << summaries, sum_resps, sum_result >>
    /\ UNCHANGED << chunkVars, jsonVars, metricsVars, aggVars, contentVars >>
    /\ UNCHANGED mainVars

\* lines 616-620: the call returns or raises
SumResponse ==
    /\ sum_pc = "wait"
    /\ \E resp \in SumResponses :
         /\ summaries' = Append(summaries,
                                ChunkResult(resp, chunks[Len(summaries) + 1]))
         /\ sum_resps' = Append(sum_resps, resp)
    /\ sum_pc' = "loop"
    /\ UNCHANGED << sum_sent, sum_result >>
    /\ UNCHANGED << chunkVars, jsonVars, metricsVars, aggVars, contentVars >>
    /\ UNCHANGED mainVars

\* line 622: the summaries are joined and returned
SumJoin ==
    /\ sum_pc = "loop"
    /\ Len(summaries) = Len(chunks)
    /\ sum_result' = Join(summaries)
    /\ sum_pc' = "done"
    /\ UNCHANGED << summaries, sum_sent, sum_resps >>
    /\ UNCHANGED << chunkVars, jsonVars, metricsVars, aggVars, contentVars >>
    /\ UNCHANGED mainVars

NextSummarize ==
    \/ SumEnter
    \/ SumChunk
    \/ SumChunked
    \/ SumCall
    \/ SumResponse
    \/ SumJoin

SpecSummarize == InitSummarize /\ [][NextSummarize]_vars

(***************************************************************************)
(* extract_json_object, lines 188-200: text.find("{") and the decoder's    *)
(* raw_decode from there.  The decoder is the one of the json module, for  *)
(* objects, strings and numbers; a text is a sequence of characters.       *)
(***************************************************************************)
LB == "{"
RB == "}"
QUOTE == "\""
BACKSLASH == "\\"

\* what the decoder returns from a position: nothing (JSONDecodeError), or a
\* value and the position after it
Fail == [ok |-> FALSE]
Ok(end, val) == [ok |-> TRUE, end |-> end, val |-> val]

\* the Python values of the model
StrVal(chars) == [t |-> "str", s |-> chars]
NumVal(digits) == [t |-> "num", d |-> digits]
DictVal(m) == [t |-> "dict", m |-> m]

RECURSIVE SkipWs(_, _)
\* the decoder's whitespace match: the position of the next other character
SkipWs(t, p) == IF p <= Len(t) /\ t[p] = " " THEN SkipWs(t, p + 1) ELSE p

RECURSIVE ScanString_unescaped(_, _, _)
\* the scan gone wrong: the first quote ends the string, escaped or not
ScanString_unescaped(t, p, acc) ==
    IF p > Len(t) THEN Fail
    ELSE IF t[p] = QUOTE THEN Ok(p + 1, acc)
    ELSE ScanString_unescaped(t, p + 1, Append(acc, t[p]))

RECURSIVE ScanString(_, _, _)
\* scanstring from p, after the opening quote: the string ends at the first
\* quote that no backslash escapes; braces are characters like any other
ScanString(t, p, acc) ==
    IF p > Len(t) THEN Fail
    ELSE IF t[p] = QUOTE THEN Ok(p + 1, acc)
    ELSE IF t[p] = BACKSLASH
    THEN IF p + 1 <= Len(t) /\ t[p + 1] \in {QUOTE, BACKSLASH}
         THEN ScanString(t, p + 2, Append(acc, t[p + 1]))
         ELSE Fail
    ELSE ScanString(t, p + 1, Append(acc, t[p]))

RECURSIVE ScanNumber(_, _, _)
\* the digits of a number from p
ScanNumber(t, p, acc) ==
    IF p <= Len(t) /\ t[p] = "1" THEN ScanNumber(t, p + 1, Append(acc, t[p]))
    ELSE Ok(p, NumVal(acc))

\* the dict of a list of pairs: a later pair replaces an earlier one of its key
DictOf(pairs) ==
    [ k \in { pairs[n][1] : n \in 1..Len(pairs) } |->
        LET last == CHOOSE n \in 1..Len(pairs) :
                      /\ pairs[n][1] = k
                      /\ \A m \in 1..Len(pairs) : pairs[m][1] = k => m <= n
        IN  pairs[last][2] ]

RECURSIVE ParseValue(_, _)
RECURSIVE ParseMembers(_, _, _)
\* JSONObject after the first key's quote was seen at p: key, colon, value,
\* then a comma and the next key, or the closing brace
ParseMembers(t, p, acc) ==
    IF p > Len(t) \/ t[p] # QUOTE THEN Fail
    ELSE LET key == ScanString(t, p + 1, << >>)
         IN  IF ~key.ok THEN Fail
             ELSE LET colon == SkipWs(t, key.end)
                  IN  IF colon > Len(t) \/ t[colon] # ":" THEN Fail
                      ELSE LET v == ParseValue(t, SkipWs(t, colon + 1))
                           IN  IF ~v.ok THEN Fail
                               ELSE LET e == SkipWs(t, v.end)
                                        pairs == Append(acc, << key.val, v.val >>)
                                    IN  IF e > Len(t) THEN Fail
                                        ELSE IF t[e] = RB
                                        THEN Ok(e + 1, DictVal(DictOf(pairs)))
                                        ELSE IF t[e] = ","
                                        THEN ParseMembers(t, SkipWs(t, e + 1), pairs)
                                        ELSE Fail

\* JSONObject from the opening brace at p
ParseObject(t, p) ==
    LET q == SkipWs(t, p + 1)
    IN  IF q <= Len(t) /\ t[q] = RB THEN Ok(q + 1, DictVal(<< >>))
        ELSE ParseMembers(t, q, << >>)

\* scan_once at p
ParseValue(t, p) ==
    IF p > Len(t) THEN Fail
    ELSE IF t[p] = QUOTE
    THEN LET r == ScanString(t, p + 1, << >>)
         IN  IF r.ok THEN Ok(r.end, StrVal(r.val)) ELSE Fail
    ELSE IF t[p] = LB THEN ParseObject(t, p)
    ELSE IF t[p] = "1" THEN ScanNumber(t, p, << >>)
    ELSE Fail

\* text.find("{"): the index (from 0) of the first opening brace, or -1
FindBrace(t) ==
    IF \A n \in 1..Len(t) : t[n] # LB THEN 0 - 1
    ELSE (CHOOSE n \in 1..Len(t) : t[n] = LB /\ \A m \in 1..(n - 1) : t[m] # LB) - 1

\* A JSON object to serialize: a syntax tree, with its Python value and its
\* serializations (with or without a space after the separators).
StrTree(chars) == [t |-> "str", s |-> chars]
NumTree == [t |-> "num"]
ObjTree(members) == [t |-> "obj", members |-> members]

RECURSIVE Escape(_)
\* a string's characters as JSON writes them between the quotes
Escape(chars) ==
    IF chars = << >> THEN << >>
    ELSE (IF Head(chars) \in {QUOTE, BACKSLASH} THEN << BACKSLASH, Head(chars) >>
          ELSE << Head(chars) >>) \o Escape(Tail(chars))

RECURSIVE Dumps(_, _)
RECURSIVE DumpsMembers(_, _)
DumpsMembers(members, sp) ==
    IF members = << >> THEN << >>
    ELSE << QUOTE >> \o Escape(Head(members)[1]) \o << QUOTE, ":" >>
         \o (IF sp THEN << " " >> ELSE << >>)
         \o Dumps(Head(members)[2], sp)
         \o (IF Len(members) > 1
             THEN << "," >> \o (IF sp THEN << " " >> ELSE << >>)
             ELSE << >>)
         \o DumpsMembers(Tail(members), sp)

\* the serialization of a tree
Dumps(tree, sp) ==
    IF tree.t = "str" THEN << QUOTE >> \o Escape(tree.s) \o << QUOTE >>
    ELSE IF tree.t = "num" THEN << "1" >>
    ELSE << LB >> \o DumpsMembers(tree.members, sp) \o << RB >>

RECURSIVE ValueOf(_)
\* the Python value a tree stands for
ValueOf(tree) ==
    IF tree.t = "str" THEN StrVal(tree.s)
    ELSE IF tree.t = "num" THEN NumVal(<< "1" >>)
    ELSE DictVal(DictOf([ n \in 1..Len(tree.members) |->
                            << tree.members[n][1], ValueOf(tree.members[n][2]) >> ]))

\* longest string value
MaxStr == 2
\* longest prefix and suffix around the object
MaxAffix == 2

\* the characters of a string value: a letter, both braces, the quote and the
\* backslash
StrChars == {"x", LB, RB, QUOTE, BACKSLASH}

StrTrees == { StrTree(c) : c \in UNION { [1..k -> StrChars] : k \in 0..MaxStr } }

ShortStrTrees == { tr \in StrTrees : Len(tr.s) <= 1 }

\* the objects: empty, one member (a string, a number, an object with one
\* string member), two string members
ObjTrees ==
    { ObjTree(<< >>) } \cup
    { ObjTree(<< << <<"k">>, v >> >>) : v \in StrTrees \cup {NumTree} } \cup
    { ObjTree(<< << <<"k">>, ObjTree(<< << <<RB>>, v >> >>) >> >>) : v \in StrTrees } \cup
    { ObjTree(<< << <<"k">>, v >>, << <<"j">>, w >> >>) :
        v \in ShortStrTrees, w \in ShortStrTrees }

\* a prefix has no opening brace; a suffix is any text
Prefixes == UNION { [1..k -> {"x", RB, QUOTE, " "}] : k \in 0..1 }
Suffixes == UNION { [1..k -> {"x", LB, RB, QUOTE}] : k \in 0..MaxAffix }

\* free text with an opening brace that begins no object
BracePrefixes == { << LB >>, << LB, "x", RB, " " >> }

\* texts of other forms: no brace at all, an object cut short, a trailing comma
OtherTexts ==
    { << >>, << "x", RB >>, << LB >>, << LB, QUOTE, "k", QUOTE, ":" >>,
      << LB, QUOTE, "k", QUOTE, ":", "1", ",", RB >>,
      << LB, QUOTE, "k", QUOTE, ":", QUOTE, BACKSLASH, "x", QUOTE, RB >> }

InitJson ==
    /\ MainIdle
    /\ ContentIdle
    /\ ChunkIdle
    /\ MetricsIdle
    /\ AggIdle
    /\ SumIdle
    /\ \/ /\ json_tree \in ObjTrees
          /\ \E pre \in Prefixes \cup BracePrefixes, suf \in Suffixes, sp \in BOOLEAN :
               json_text = pre \o Dumps(json_tree, sp) \o suf
       \/ /\ json_tree = None
          /\ json_text \in OtherTexts
    /\ json_idx = 0
    /\ json_result = None
    /\ json_pc = "find"

\* lines 193-195: idx = text.find("{"); None without a brace
JsonFind ==
    /\ json_pc = "find"
    /\ json_idx' = FindBrace(json_text)
    /\ json_pc' = IF FindBrace(json_text) = 0 - 1 THEN "done" ELSE "decode"
    /\ UNCHANGED << json_text, json_tree, json_result >>
    /\ UNCHANGED << chunkVars, metricsVars, aggVars, sumVars, contentVars >>
    /\ UNCHANGED mainVars

\* lines 196-200: raw_decode(text, idx); None on JSONDecodeError
JsonDecode ==
    /\ json_pc = "decode"
    /\ LET r == ParseValue(json_text, json_idx + 1)
       IN  json_result' = IF r.ok THEN r.val ELSE None
    /\ json_pc' = "done"
    /\ UNCHANGED << json_text, json_tree, json_idx >>
    /\ UNCHANGED << chunkVars, metricsVars, aggVars, sumVars, contentVars >>
    /\ UNCHANGED mainVars

NextJson == JsonFind \/ JsonDecode

SpecJson == InitJson /\ [][NextJson]_vars

(***************************************************************************)
(* extract_session_metrics, lines 332-459: the loop over the messages, as  *)
(* far as the user turns, the timestamps, the response times and the       *)
(* duration go.  SpecMetrics runs it message by message.                   *)
(*                                                                         *)
(* A timestamp is missing (None), a string fromisoformat rejects (BadTs),  *)
(* or a time, counted in whole seconds.                                    *)
(***************************************************************************)
\* messages of one session
MaxMsgs == 3

Times == {0, 2, 5, 3600, 4000}

\* a timestamp that parses, and one that does not
At(t) == [sec |-> t]
BadTs == [bad |-> TRUE]

Timestamps == {None, BadTs} \cup { At(t) : t \in Times }

\* msg.get("timestamp") is truthy
HasTs(ts) == ts # None

\* datetime.fromisoformat(ts.replace("Z", "+00:00")) returns
Parses(ts) == ts \in { At(t) : t \in Times }

\* msg["message"].get("usage", {}): a usage without the two counters (or no
\* usage at all), one with output_tokens alone, one with both
NoUsage == [service_tier |-> 0]
OutputUsage == [output_tokens |-> 2]
FullUsage == [input_tokens |-> 3, output_tokens |-> 1]
Usages == { NoUsage, OutputUsage, FullUsage }

\* a message: an assistant message, a user message with or without text, or
\* a message the loop passes over (another type, or no "message")
Messages ==
    [type : {"assistant"}, has_text : {FALSE}, ts : Timestamps, usage : Usages]
      \cup [type : {"user"}, has_text : BOOLEAN, ts : Timestamps, usage : {NoUsage}]
      \cup { [type |-> "user", has_text |-> TRUE, ts |-> None, usage |-> FullUsage] }
      \cup [type : {"other"}, has_text : {FALSE}, ts : {None}, usage : {NoUsage}]

MessageLists == UNION { [1..n -> Messages] : n \in 0..MaxMsgs }

\* the window gone wrong: out-of-window differences clamped to the bounds
Windowed_clamped(delta) ==
    << IF delta <= 2 THEN 3 ELSE IF delta >= 3600 THEN 3599 ELSE delta >>

\* lines 441-442: if 2 < delta < 3600: response_times.append(delta)
Windowed(delta) == IF 2 < delta /\ delta < 3600 THEN << delta >> ELSE << >>

\* int(x / 60): Python's int() rounds towards zero
Minutes(x) == IF x >= 0 THEN x \div 60 ELSE 0 - ((0 - x) \div 60)

\* the duration gone wrong: the minutes are not held at 1 or above
Max_second(a, b) == b

Max(a, b) == IF a > b THEN a ELSE b

InitMetrics ==
    /\ MainIdle
    /\ ContentIdle
    /\ ChunkIdle
    /\ JsonIdle
    /\ AggIdle
    /\ SumIdle
    /\ messages \in MessageLists
    /\ msg_i = 1
    /\ user_msg_count = 0
    /\ last_assistant_ts = None
    /\ start_time = None
    /\ end_time = None
    /\ response_times = << >>
    /\ duration_minutes = 0
    /\ input_tokens = 0
    /\ output_tokens = 0
    /\ metrics_pc = "loop"

\* lines 332-443: one iteration of: for msg in messages
MetricsStep ==
    /\ metrics_pc = "loop"
    /\ msg_i <= Len(messages)
    /\ LET msg == messages[msg_i]
           ts == msg.ts
           at == IF msg.type = "assistant" /\ HasTs(ts) THEN ts ELSE last_assistant_ts
           turn == msg.type = "user" /\ msg.has_text
           stamped == turn /\ HasTs(ts) /\ Parses(ts)
       IN  /\ last_assistant_ts' = at
           /\ input_tokens' = IF msg.type = "assistant"
                               THEN input_tokens + Get(msg.usage, "input_tokens", 0)
                               ELSE input_tokens
           /\ output_tokens' = IF msg.type = "assistant"
                                THEN output_tokens + Get(msg.usage, "output_tokens", 0)
                                ELSE output_tokens
           /\ user_msg_count' = IF turn THEN user_msg_count + 1 ELSE user_msg_count
           /\ start_time' = IF stamped /\ start_time = None THEN ts ELSE start_time
           /\ end_time' = IF stamped THEN ts ELSE end_time
           /\ response_times' =
                IF stamped /\ HasTs(last_assistant_ts) /\ Parses(last_assistant_ts)
                THEN response_times \o Windowed(ts.sec - last_assistant_ts.sec)
                ELSE response_times
    /\ msg_i' = msg_i + 1
    /\ UNCHANGED << messages, duration_minutes, metrics_pc >>
    /\ UNCHANGED << chunkVars, jsonVars, aggVars, sumVars, contentVars >>
    /\ UNCHANGED mainVars

\* lines 455-459: the duration, 0 without a timestamped user turn
MetricsReturn ==
    /\ metrics_pc = "loop"
    /\ msg_i > Len(messages)
    /\ duration_minutes' =
         IF start_time # None /\ end_time # None
         THEN Max(1, Minutes(end_time.sec - start_time.sec))
         ELSE 0
    /\ metrics_pc' = "done"
    /\ UNCHANGED << messages, msg_i, user_msg_count, last_assistant_ts, start_time,
                    end_time, response_times, input_tokens, output_tokens >>
    /\ UNCHANGED << chunkVars, jsonVars, aggVars, sumVars, contentVars >>
    /\ UNCHANGED mainVars

NextMetrics == MetricsStep \/ MetricsReturn

SpecMetrics == InitMetrics /\ [][NextMetrics]_vars

(***************************************************************************)
(* aggregate_data, lines 664-778: the loop over session_metrics, as far as *)
(* the totals of the metrics and the tables taken from the facets go.      *)
(* SpecAggregate runs it session by session.                               *)
(***************************************************************************)
\* sessions in session_metrics
MaxSessions == 3

\* the metrics of a session with little in it, and of one with more
Quiet(sid) ==
    [ session_id |-> sid, user_message_count |-> 2, duration_minutes |-> 1,
      input_tokens |-> 0, output_tokens |-> 0, tool_counts |-> << >>,
      tool_errors |-> 0, lines_added |-> 0, lines_removed |-> 0,
      user_response_times |-> << >> ]

\* the same with one latency sample
Steady(sid) == [ Quiet(sid) EXCEPT !.user_response_times = << 4 >> ]

Busy(sid) ==
    [ session_id |-> sid, user_message_count |-> 3, duration_minutes |-> 90,
      input_tokens |-> 10, output_tokens |-> 20,
      tool_counts |-> [Bash |-> 2, Edit |-> 1],
      tool_errors |-> 1, lines_added |-> 5, lines_removed |-> 3,
      user_response_times |-> << 5, 3 >> ]

MetricsLists ==
    UNION { [1..n -> { Quiet(s) : s \in SessionIds } \cup { Busy(s) : s \in SessionIds }
                       \cup { Steady(s) : s \in SessionIds }] :
              n \in 0..MaxSessions }

\* facets_map: a facet for some of the session ids
FacetMaps ==
    UNION { { [s \in D |-> Tagged(f[s], s)] :
                f \in [D -> {GoodObject, WarmupObject, BadObject}] } :
            D \in SUBSET SessionIds }

\* table[k] = table.get(k, 0) + v
Bump(table, k, v) ==
    [ x \in DOMAIN table \cup {k} |-> Get(table, x, 0) + (IF x = k THEN v ELSE 0) ]

\* for k, v in counts.items(): table[k] = table.get(k, 0) + v
MergeCounts(table, counts) ==
    [ x \in DOMAIN table \cup DOMAIN counts |->
        Get(table, x, 0) + Get(counts, x, 0) ]

\* the same for the entries with v and v > 0
MergePositive(table, counts) ==
    LET P == { k \in DOMAIN counts : counts[k] > 0 }
    IN  [ x \in DOMAIN table \cup P |->
            Get(table, x, 0) + (IF x \in P THEN counts[x] ELSE 0) ]

\* lines 666-703: data before the loop.  total_duration_minutes is
\* total_duration_hours counted in minutes (the code adds duration_minutes / 60)
Data0(sms, fmap) ==
    [ total_sessions |-> aggregate_data(sms, fmap).total_sessions,
      sessions_with_facets |-> aggregate_data(sms, fmap).sessions_with_facets,
      total_messages |-> 0, total_duration_minutes |-> 0,
      total_input_tokens |-> 0, total_output_tokens |-> 0,
      tool_counts |-> << >>, total_tool_errors |-> 0,
      total_lines_added |-> 0, total_lines_removed |-> 0,
      goal_categories |-> << >>, outcomes |-> << >>, satisfaction |-> << >>,
      helpfulness |-> << >>, session_types |-> << >>, friction |-> << >>,
      success |-> << >>, median_response_time |-> 0 ]

\* lines 709-740: the metrics of one session go into the totals
AddMetrics(d, sm) ==
    [ d EXCEPT !.total_messages = @ + sm.user_message_count,
               !.total_duration_minutes = @ + sm.duration_minutes,
               !.total_input_tokens = @ + sm.input_tokens,
               !.total_output_tokens = @ + sm.output_tokens,
               !.total_tool_errors = @ + sm.tool_errors,
               !.total_lines_added = @ + sm.lines_added,
               !.total_lines_removed = @ + sm.lines_removed,
               !.tool_counts = MergeCounts(@, sm.tool_counts) ]

\* lines 749-768: the facet of one session goes into the tables
WithFacet(d, facet) ==
    LET outcome == Get(facet, "outcome", "")
        helpfulness == Get(facet, "claude_helpfulness", "")
        session_type == Get(facet, "session_type", "")
        primary_success == Get(facet, "primary_success", "none")
    IN  [ d EXCEPT
            !.goal_categories = MergePositive(@, Get(facet, "goal_categories", << >>)),
            !.outcomes = IF outcome # "" THEN Bump(@, outcome, 1) ELSE @,
            !.satisfaction =
                MergePositive(@, Get(facet, "user_satisfaction_counts", << >>)),
            !.helpfulness = IF helpfulness # "" THEN Bump(@, helpfulness, 1) ELSE @,
            !.session_types = IF session_type # "" THEN Bump(@, session_type, 1) ELSE @,
            !.friction = MergePositive(@, Get(facet, "friction_counts", << >>)),
            !.success = IF primary_success # "" /\ primary_success # "none"
                        THEN Bump(@, primary_success, 1) ELSE @ ]

\* the merge gone wrong: a session without a facet is counted as an outcome
MergeFacet_unknown(d, facet) ==
    IF Truthy(facet) THEN WithFacet(d, facet)
    ELSE [d EXCEPT !.outcomes = Bump(@, "unknown", 1)]

\* lines 746-748: facet = facets_map.get(sm["session_id"]); if facet: ...
MergeFacet(d, facet) == IF Truthy(facet) THEN WithFacet(d, facet) ELSE d

\* facets_map.get(session_id)
FacetFor(sid) == IF sid \in DOMAIN agg_facets_map THEN agg_facets_map[sid] ELSE None

\* sorted(seq), ascending
RECURSIVE sorted(_)
sorted(seq) ==
    IF seq = << >> THEN << >>
    ELSE LET least == CHOOSE k \in 1..Len(seq) : \A l \in 1..Len(seq) : seq[k] <= seq[l]
             rest == [ n \in 1..(Len(seq) - 1) |-> IF n < least THEN seq[n] ELSE seq[n + 1] ]
         IN  << seq[least] >> \o sorted(rest)

\* line 788: sorted_rt[len(sorted_rt) // 2]
Middle(sorted_rt) == sorted_rt[(Len(sorted_rt) \div 2) + 1]

InitAggregate ==
    /\ MainIdle
    /\ ContentIdle
    /\ ChunkIdle
    /\ JsonIdle
    /\ MetricsIdle
    /\ SumIdle
    /\ agg_session_metrics \in MetricsLists
    /\ agg_facets_map \in FacetMaps
    /\ sm_i = 1
    /\ data = Data0(agg_session_metrics, agg_facets_map)
    /\ all_response_times = << >>
    /\ agg_pc = "loop"

\* lines 709-776: one iteration of: for sm in session_metrics
AggregateStep ==
    /\ agg_pc = "loop"
    /\ sm_i <= Len(agg_session_metrics)
    /\ LET sm == agg_session_metrics[sm_i]
       IN  /\ data' = MergeFacet(AddMetrics(data, sm), FacetFor(sm.session_id))
           /\ all_response_times' = all_response_times \o sm.user_response_times
    /\ sm_i' = sm_i + 1
    /\ UNCHANGED << agg_session_metrics, agg_facets_map, agg_pc >>
    /\ UNCHANGED << chunkVars, jsonVars, metricsVars, sumVars, contentVars >>
    /\ UNCHANGED mainVars

\* lines 785-797: the median of the pooled samples; return data
AggregateReturn ==
    /\ agg_pc = "loop"
    /\ sm_i > Len(agg_session_metrics)
    /\ data' = IF all_response_times # << >>
               THEN [data EXCEPT !.median_response_time = Middle(sorted(all_response_times))]
               ELSE data
    /\ agg_pc' = "done"
    /\ UNCHANGED << agg_session_metrics, agg_facets_map, sm_i, all_response_times >>
    /\ UNCHANGED << chunkVars, jsonVars, metricsVars, sumVars, contentVars >>
    /\ UNCHANGED mainVars

NextAggregate == AggregateStep \/ AggregateReturn

SpecAggregate == InitAggregate /\ [][NextAggregate]_vars

(***************************************************************************)
(* extract_session_metrics, lines 385-419: the scan of the content of the  *)
(* user turns of one session, which counts the tool errors and sorts them  *)
(* into categories.  A message is modelled by the set of phrases that      *)
(* occur in it.                                                            *)
(***************************************************************************)
MaxTurns == 2
MaxItems == 2

\* the substrings the classification looks for (lines 404-415)
Phrases == { "exit code", "rejected", "doesn't want", "string to replace not found",
             "no changes", "modified since read", "exceeds maximum", "too large",
             "file not found", "does not exist" }

\* what a message may hold: the phrases, two of them in another case, and a
\* phrase the classification does not look for
Tokens == Phrases \cup { "EXIT CODE", "Too Large", "permission denied" }

\* str.lower() on one token
LowerToken(tok) ==
    CASE tok = "EXIT CODE" -> "exit code"
      [] tok = "Too Large" -> "too large"
      [] OTHER -> tok

\* line 403: err_content.lower()
Lower(words) == { LowerToken(tok) : tok \in words }

\* the content of a tool result: a string holding these tokens, or a list of
\* blocks
StrContent(words) == [str |-> TRUE, words |-> words]
BlockContent == [str |-> FALSE, words |-> {}]

\* the items of a content list
TextItem(blank) ==
    [type |-> "text", blank |-> blank, is_error |-> FALSE, content |-> StrContent({})]
ToolResult(is_error, c) ==
    [type |-> "tool_result", blank |-> TRUE, is_error |-> is_error, content |-> c]

\* the content of a user turn: a string, or a list of items
StringContent == [str |-> TRUE, items |-> << >>]
ListContent(items) == [str |-> FALSE, items |-> items]

\* error results with any message of at most two tokens
ErrorMessages == { m \in SUBSET Tokens : Cardinality(m) <= 2 }
ErrorResults == { ToolResult(TRUE, StrContent(m)) : m \in ErrorMessages }

\* the items of the sessions with several items and turns
Items == { TextItem(FALSE), TextItem(TRUE),
           ToolResult(FALSE, StrContent({})),
           ToolResult(TRUE, BlockContent),
           ToolResult(TRUE, StrContent({"permission denied"})),
           ToolResult(TRUE, StrContent({"exit code", "rejected"})) }

Contents ==
    {StringContent} \cup
    { ListContent(its) : its \in UNION { [1..n -> Items] : n \in 0..MaxItems } }

\* the sessions scanned: one turn with one error result, or up to MaxTurns
\* turns of up to MaxItems items
ContentSessions ==
    { << ListContent(<< r >>) >> : r \in ErrorResults } \cup
    UNION { [1..n -> Contents] : n \in 0..MaxTurns }

\* the classification gone wrong: "rejected" is looked for before "exit code"
Category_rejected_first(err_lower) ==
    IF "rejected" \in err_lower \/ "doesn't want" \in err_lower THEN "User Rejected"
    ELSE IF "exit code" \in err_lower THEN "Command Failed"
    ELSE IF "string to replace not found" \in err_lower \/ "no changes" \in err_lower
    THEN "Edit Failed"
    ELSE IF "modified since read" \in err_lower THEN "File Changed"
    ELSE IF "exceeds maximum" \in err_lower \/ "too large" \in err_lower
    THEN "File Too Large"
    ELSE IF "file not found" \in err_lower \/ "does not exist" \in err_lower
    THEN "File Not Found"
    ELSE "Other"

\* lines 404-418: cat
Category(err_lower) ==
    IF "exit code" \in err_lower THEN "Command Failed"
    ELSE IF "rejected" \in err_lower \/ "doesn't want" \in err_lower THEN "User Rejected"
    ELSE IF "string to replace not found" \in err_lower \/ "no changes" \in err_lower
    THEN "Edit Failed"
    ELSE IF "modified since read" \in err_lower THEN "File Changed"
    ELSE IF "exceeds maximum" \in err_lower \/ "too large" \in err_lower
    THEN "File Too Large"
    ELSE IF "file not found" \in err_lower \/ "does not exist" \in err_lower
    THEN "File Not Found"
    ELSE "Other"

InitContent ==
    /\ MainIdle
    /\ ChunkIdle
    /\ JsonIdle
    /\ MetricsIdle
    /\ AggIdle
    /\ SumIdle
    /\ user_contents \in ContentSessions
    /\ turn_i = 0
    /\ item_i = 0
    /\ has_text = FALSE
    /\ tool_errors = 0
    /\ tool_error_categories = << >>
    /\ content_pc = "turn"

\* lines 385-393: the next user turn is entered, or the messages are over
ContentTurn ==
    /\ content_pc = "turn"
    /\ IF turn_i = Len(user_contents)
       THEN /\ content_pc' = "done"
            /\ UNCHANGED << turn_i, item_i, has_text >>
       ELSE LET content == user_contents[turn_i + 1]
            IN  /\ turn_i' = turn_i + 1
                /\ item_i' = 0
                /\ has_text' = content.str
                /\ content_pc' =
                     IF content.str \/ content.items = << >> THEN "turn" ELSE "items"
    /\ UNCHANGED << user_contents, tool_errors, tool_error_categories >>
    /\ UNCHANGED << chunkVars, jsonVars, metricsVars, aggVars, sumVars >>
    /\ UNCHANGED mainVars

\* lines 394-419: one iteration of: for item in content
ContentItem ==
    /\ content_pc = "items"
    /\ LET items == user_contents[turn_i].items
           item == items[item_i + 1]
           text == item.type = "text" /\ ~item.blank
           error == ~text /\ item.type = "tool_result" /\ item.is_error
       IN  /\ has_text' = (has_text \/ text)
           /\ tool_errors' = IF error THEN tool_errors + 1 ELSE tool_errors
           /\ tool_error_categories' =
                IF error /\ item.content.str
                THEN Bump(tool_error_categories, Category(Lower(item.content.words)), 1)
                ELSE tool_error_categories
           /\ item_i' = item_i + 1
           /\ content_pc' = IF text \/ item_i + 1 = Len(items) THEN "turn" ELSE "items"
    /\ UNCHANGED << user_contents, turn_i >>
    /\ UNCHANGED << chunkVars, jsonVars, metricsVars, aggVars, sumVars >>
    /\ UNCHANGED mainVars

NextContent == ContentTurn \/ ContentItem

SpecContent == InitContent /\ [][NextContent]_vars

(***************************************************************************)
(*                              The claims                                 *)
(***************************************************************************)
InRun == pc \notin {"idle", "crashed"}

TotalCalls(s) == calls[s].summarize + calls[s].facet

\* the session ids main() has kept as non-trivial so far
NonTrivialIds == { all_metrics[n].session_id : n \in 1..Len(all_metrics) }

\* C1: Cache idempotence.  A session whose cache entry exists and parses when
\* the run starts gets no text-generation call in the run (no chunk summary,
\* no facet extraction), and the facet main() holds for it, and hands to the
\* aggregator, is the cached value; when every non-trivial session is cached
\* at the start, nothing needs extraction and no such call is issued at all.
C1_CacheIdempotence ==
    InRun =>
      /\ \A s \in SessionIds :
           cache0[s].st = "full" =>
             /\ TotalCalls(s) = 0
             /\ s \in DOMAIN facets_map => facets_map[s] = cache0[s].val
             /\ s \in DOMAIN filtered_facets => filtered_facets[s] = cache0[s].val
             /\ s \in NonTrivialIds => s \in DOMAIN facets_map
      /\ ( /\ pc \in {"collect", "saving", "unwinding", "filter", "report", "done"}
           /\ \A s \in NonTrivialIds : cache0[s].st = "full" )
         => /\ sessions_needing_facets = << >>
            /\ \A s \in SessionIds : TotalCalls(s) = 0

\* a second run that ends with a cached facet in the aggregate, and another
\* session extracted in the same run
C1_Witness ==
    /\ run = 2
    /\ pc = "done"
    /\ ~args.dry_run
    /\ \E s \in SessionIds :
         /\ cache0[s].st = "full"
         /\ s \in DOMAIN filtered_facets
         /\ filtered_facets[s] = cache0[s].val
    /\ \E t \in SessionIds : calls[t].facet > 0

\* C2: Facet atomicity.  Every facet written to the cache or handed to the
\* aggregator is well-typed: the four enumerations in their closed sets, the
\* three count maps non-negative.
C2_FacetAtomicity ==
    \A s \in SessionIds :
      /\ cache[s].st = "full" => WellTyped(cache[s].val)
      /\ s \in DOMAIN filtered_facets => WellTyped(filtered_facets[s])

\* the run has left the batch of item j
BatchLeft(j) ==
    /\ j \in DOMAIN job
    /\ job[j].pc # "idle"
    /\ \/ pc \in {"filter", "report", "done", "exit"}
       \/ j <= batch_start

\* save_facet failed for item j itself
OwnWriteFailed(j) ==
    /\ job[j].pc = "collected"
    /\ abort_cause = "cache_write"
    /\ cache[ItemFile(j).session_id].st # "full"

\* no other item has the session id of item j
OwnId(j) ==
    \A n \in DOMAIN job : n # j => ItemFile(n).session_id # ItemFile(j).session_id

\* C3: Batch independence.  Whatever happens to the other items of its batch,
\* an item whose facet call returned a text with a recoverable JSON object
\* (a non-empty one, which is what extract_facets returns as a facet), whose
\* own cache write did not fail and whose session id is its own, is in
\* facets_map and in the cache once its batch is over.
C3_BatchIndependence ==
    \A j \in DOMAIN job :
      (BatchLeft(j) /\ Truthy(job[j].result) /\ ~OwnWriteFailed(j) /\ OwnId(j)) =>
        /\ ItemFile(j).session_id \in DOMAIN facets_map
        /\ cache[ItemFile(j).session_id].st = "full"

\* C4: No per-item failure is fatal.  A run ends early (with an exception)
\* only for a setup error: the credentials or the date filter.
C4_OnlySetupErrorsFatal ==
    pc = "exit" => abort_cause \in {"credentials", "date"}

\* the run is over, and no setup error ended it
RunOver == pc \in {"done", "exit"} /\ abort_cause \notin {"credentials", "date"}

\* C5: Two-phase report synthesis.  Every run without the dry-run flag that
\* gets through setup has issued the at-a-glance call exactly once when it is
\* over.
C5_GlanceOncePerRun ==
    (RunOver /\ ~args.dry_run) => glance_calls = 1

\* Inside generate_insights the two phases are kept apart: the at-a-glance
\* call is issued at most once, only when every report-section future has
\* finished and been collected, and exactly once by the time generate_insights
\* returns, whatever the sections' calls did.
TwoPhase ==
    /\ glance_calls <= 1
    /\ glance = "idle" => glance_calls = 0
    /\ glance # "idle" =>
         /\ glance_calls = 1
         /\ \A n \in SectionNames : glance_after[n].st = "collected"
         /\ \A n \in SectionNames : sec[n].st = "collected"
    /\ pc = "done" => glance = "done" /\ glance_calls = 1

\* the at-a-glance call is issued although every section is absent
TwoPhaseAllAbsent ==
    /\ glance = "running"
    /\ glance_calls = 1
    /\ DOMAIN results = {}
    /\ \A n \in SectionNames : sec[n].st = "collected" /\ sec[n].result = None

InFlight == { j \in DOMAIN job : job[j].pc \in {"sum_call", "facet_call"} }
InPool == { j \in DOMAIN job : job[j].pc \in {"submitted", "sum_call", "facet_call"} }

\* C6: Bounded fan-out.  At most FACET_BATCH_SIZE text-generation calls of the
\* extraction phase (chunk summaries and facet extractions together) are in
\* flight at any time, and at most FACET_BATCH_SIZE sessions are being
\* processed; all of them belong to the current batch.
C6_BoundedFanOut ==
    /\ Cardinality(InFlight) <= FACET_BATCH_SIZE
    /\ Cardinality(InPool) <= FACET_BATCH_SIZE
    /\ InPool \subseteq BatchOf(batch_start)

\* a full batch in flight, a chunk summary among the calls
C6_Witness ==
    /\ Cardinality(InFlight) = FACET_BATCH_SIZE
    /\ \E j \in InFlight : job[j].pc = "sum_call"
    /\ \E j \in InFlight : job[j].pc = "facet_call"

\* the session ids of the batch in the pool
CurrentIds == { ItemFile(j).session_id : j \in BatchOf(batch_start) }

\* the facets of the batches before the current one are in the cache; an entry
\* is open for writing only for a session id of the current batch
CrashLoss ==
    pc \in {"collect", "saving", "unwinding"} =>
      \A j \in DOMAIN job :
        (j <= batch_start /\ Truthy(job[j].result)) =>
          \/ cache[ItemFile(j).session_id].st = "full"
          \/ ItemFile(j).session_id \in CurrentIds

\* a batch is submitted only with every future of the batch before it
\* collected, and every facet of that batch written to the cache
Barrier ==
    batch_start' > batch_start =>
      /\ pc = "collect"
      /\ \A j \in BatchOf(batch_start) :
           /\ job[j].pc = "collected"
           /\ Truthy(job[j].result) =>
                /\ cache[ItemFile(j).session_id].st = "full"
                /\ \E k \in BatchOf(batch_start) :
                     cache[ItemFile(j).session_id].val = job[k].result
      /\ \A j \in DOMAIN job : job'[j].pc = "submitted" => j \in BatchOf(batch_start')

C8_AtMostOnce ==
    \A s \in SessionIds : calls[s].facet <= 1 /\ writes[s] <= 1

\* C9: Cache entries are write-once.  No step of the program changes a cache
\* entry that holds a facet.
C9_WriteOnce ==
    [][ \A s \in SessionIds : cache[s].st = "full" => cache'[s] = cache[s] ]_vars

\* C10: Dry run.  With the dry-run flag set, a run that gets through setup
\* issues no text-generation call of any kind, starts no worker, writes no
\* cache file, and ends normally.
C10_DryRun ==
    (InRun /\ args.dry_run /\ abort_cause \notin {"credentials", "date"}) =>
      /\ \A s \in SessionIds : TotalCalls(s) = 0 /\ writes[s] = 0
      /\ report_calls = 0
      /\ glance_calls = 0
      /\ cache = cache0
      /\ job = << >>
      /\ pc \in {"load", "done"}
      /\ pc = "done" => exit_status = 0

\* A dry run issues no call and writes nothing, however it ends.
DryRunNoCalls ==
    (InRun /\ args.dry_run) =>
      /\ \A s \in SessionIds : TotalCalls(s) = 0 /\ writes[s] = 0
      /\ report_calls = 0
      /\ glance_calls = 0
      /\ cache = cache0
      /\ job = << >>

\* C11: Fatal setup error.  A run whose --after text is no YYYY-MM-DD date
\* (02/01/2026) ends with a non-zero exit status, with no text-generation call
\* issued and no cache file written or touched.
C11_InvalidDateFatal ==
    (InRun /\ args.after = "02/01/2026") =>
      /\ pc = "exit"
      /\ exit_status # 0
      /\ \A s \in SessionIds : TotalCalls(s) = 0 /\ writes[s] = 0
      /\ report_calls = 0
      /\ glance_calls = 0
      /\ job = << >>
      /\ cache = cache0

\* a second run is ended by the date filter, with sessions discovered and a
\* facet in the cache from the run before
C11_Witness ==
    /\ run = 2
    /\ pc = "exit"
    /\ abort_cause = "date"
    /\ exit_status = 1
    /\ sessions # << >>
    /\ \E s \in SessionIds : cache[s].st = "full"

RECURSIVE Concat(_)
\* the concatenation of a sequence of texts
Concat(ss) == IF ss = << >> THEN << >> ELSE Head(ss) \o Concat(Tail(ss))

\* the chunk loop has ended
ChunksDone == chunk_i >= Len(transcript)

\* C12: Chunking round-trip.  The chunks made so far are the consecutive
\* slices of the transcript at the offsets 0, C, 2C, ...: chunk k starts at
\* (k-1)C, where chunk k-1 ended, and has at most C characters; when the loop
\* has ended every chunk but the last has exactly C characters, no chunk is
\* empty, and the chunks concatenated in order are the transcript (no chunk at
\* all for the empty transcript).
C12_ChunkRoundTrip ==
    /\ \A k \in 1..Len(chunks) :
         /\ Len(chunks[k]) <= chunk_size
         /\ \A n \in 1..Len(chunks[k]) :
              chunks[k][n] = transcript[(k - 1) * chunk_size + n]
         /\ k < Len(chunks) => Len(chunks[k]) = chunk_size
    /\ Concat(chunks) = SubSeq(transcript, 1, Min(chunk_i, Len(transcript)))
    /\ ChunksDone =>
         /\ Concat(chunks) = transcript
         /\ \A k \in 1..Len(chunks) : Len(chunks[k]) >= 1
         /\ Len(chunks) * chunk_size >= Len(transcript)
         /\ (Len(chunks) - 1) * chunk_size < Len(transcript) \/ chunks = << >>

\* a transcript cut into full chunks and a shorter last one
C12_Witness ==
    /\ ChunksDone
    /\ Len(transcript) = MaxLen
    /\ chunk_size = 2
    /\ Len(chunks) = 3
    /\ Len(chunks[3]) = 1

\* where the serialized object begins in the text (0-based)
ObjectStart ==
    LET starts == { k \in 0..Len(json_text) :
                      \E sp \in BOOLEAN :
                        LET o == Dumps(json_tree, sp)
                        IN  /\ k + Len(o) <= Len(json_text)
                            /\ SubSeq(json_text, k + 1, k + Len(o)) = o }
    IN  CHOOSE k \in starts : \A l \in starts : k <= l

\* C13: JSON recovery with braces in strings.  For a text prefix + O + suffix,
\* O the serialization of a JSON object, the prefix without an opening brace,
\* extract_json_object returns the object O stands for, whatever braces,
\* quotes and backslashes its string values hold and whatever follows it.
C13_JsonRecovery ==
    (json_pc = "done" /\ json_tree # None /\ FindBrace(json_text) = ObjectStart) =>
      json_result = ValueOf(json_tree)

\* a string value with a closing brace and an escaped quote, closing braces
\* around the object, and the object recovered
C13_Witness ==
    /\ json_pc = "done"
    /\ json_tree = ObjTree(<< << <<"k">>, StrTree(<< QUOTE, RB >>) >> >>)
    /\ json_text = << RB, LB, QUOTE, "k", QUOTE, ":", QUOTE, BACKSLASH, QUOTE, RB,
                      QUOTE, RB, RB, LB >>
    /\ json_result = DictVal(<<"k">> :> StrVal(<< QUOTE, RB >>))

\* what the trivial filter reads of a session file; a file without messages
\* has no turn and no duration
UserTurnsOf(f) ==
    IF MessagesOf(f) = << >> THEN 0 ELSE extract_session_metrics(f).user_message_count

DurationOf(f) ==
    IF MessagesOf(f) = << >> THEN 0 ELSE extract_session_metrics(f).duration_minutes

EnoughTurns(f) == UserTurnsOf(f) >= 2 /\ DurationOf(f) >= 1

\* the sessions the load loop is done with, in order
Loaded == [n \in 1..(i - 1) |-> n]

MetricsOfAll(idx) == [k \in 1..Len(idx) |-> extract_session_metrics(sessions[idx[k]])]

Indices(seq) == { seq[k] : k \in 1..Len(seq) }

\* C14 as stated: a session contributes if and only if it has at least 2
\* text-bearing user turns and a duration of at least 1 minute.  A session
\* is_insights_session recognizes is passed over with any number of turns.
C14_TrivialFilterIff ==
    all_metrics = MetricsOfAll(SelectSeq(Loaded, LAMBDA n : EnoughTurns(sessions[n])))

\* C14: Trivial-session filtering.  Of the sessions the load loop is done
\* with, those that are appended to all_metrics are exactly the ones that
\* have messages, are not recognized by is_insights_session, and have at
\* least 2 text-bearing user turns and a duration_minutes of at least 1; only
\* these are looked up in the cache, and only these are queued for facet
\* extraction (when the lookup finds nothing).  A session with exactly 1 user
\* turn is passed over whatever its duration, and so is one with no turn,
\* whose duration is 0.
C14_TrivialFilter ==
    LET keep(n) == /\ MessagesOf(sessions[n]) # << >>
                   /\ ~is_insights_session(sessions[n])
                   /\ EnoughTurns(sessions[n])
        kept == SelectSeq(Loaded, keep)
    IN  /\ all_metrics = MetricsOfAll(kept)
        /\ Indices(sessions_needing_facets) \subseteq Indices(kept)
        /\ \A n \in Indices(kept) :
             \/ n \in Indices(sessions_needing_facets)
             \/ sessions[n].session_id \in DOMAIN facets_map
        /\ \A n \in Indices(Loaded) :
             /\ UserTurnsOf(sessions[n]) = 1 => n \notin Indices(kept)
             /\ UserTurnsOf(sessions[n]) = 0 =>
                  DurationOf(sessions[n]) = 0 /\ n \notin Indices(kept)

\* a session with one user turn was passed over, the two others were kept
C14_Witness ==
    /\ pc = "load"
    /\ i > Len(sessions)
    /\ Len(sessions) = NumFiles
    /\ \E n \in 1..Len(sessions) : sessions[n].kind = "trivial"
    /\ Len(all_metrics) = NumFiles - 1

\* extract_session_metrics, lines 332-459, for C14: the count is the number
\* of text-bearing user turns; the duration is 0 unless one of them has a
\* timestamp that parses, and at least 1 otherwise; so no turns, no duration.
MetricsOfTurns ==
    LET turns == { n \in 1..Len(messages) :
                     messages[n].type = "user" /\ messages[n].has_text }
        stamped == { n \in turns : Parses(messages[n].ts) }
    IN  metrics_pc = "done" =>
          /\ user_msg_count = Cardinality(turns)
          /\ (stamped = {}) = (duration_minutes = 0)
          /\ duration_minutes >= 0
          /\ Cardinality(turns) = 0 => duration_minutes = 0
          /\ Cardinality(turns) = 1 => duration_minutes <= 1

\* the facet's goal categories with a positive count are warmup_minimal alone
WarmupOnly(f) ==
    /\ "goal_categories" \in DOMAIN f
    /\ \E k \in DOMAIN f.goal_categories : f.goal_categories[k] > 0
    /\ \A k \in DOMAIN f.goal_categories :
         f.goal_categories[k] > 0 => k = "warmup_minimal"

Removed(s) == s \in DOMAIN facets_map /\ WarmupOnly(facets_map[s])

\* C15: Warmup re-filtering.  When main() hands the lists to the aggregator
\* and the report stage, no session whose facet has warmup_minimal as its
\* only goal category with a positive count is in filtered_metrics or in
\* filtered_facets, every other session of all_metrics and facets_map (one
\* without a facet, one with another positive category) is still there, and
\* total_sessions is the number of sessions left.
C15_WarmupFilter ==
    pc = "report" =>
      /\ \A n \in 1..Len(filtered_metrics) : ~Removed(filtered_metrics[n].session_id)
      /\ \A s \in DOMAIN filtered_facets : ~Removed(s)
      /\ filtered_metrics = SelectSeq(all_metrics, LAMBDA m : ~Removed(m.session_id))
      /\ DOMAIN filtered_facets = { s \in DOMAIN facets_map : ~Removed(s) }
      /\ \A s \in DOMAIN filtered_facets : filtered_facets[s] = facets_map[s]
      /\ agg_data.total_sessions = Len(filtered_metrics)

\* one session was removed as warmup, one with another goal and one without
\* a facet were kept
C15_Witness ==
    /\ pc = "report"
    /\ Len(all_metrics) = 3
    /\ \E n \in 1..3 : Removed(all_metrics[n].session_id)
    /\ \E n \in 1..3 : all_metrics[n].session_id \notin DOMAIN facets_map
    /\ agg_data.total_sessions = 2

\* the latest assistant message before the j-th message that has a
\* timestamp, 0 if there is none
PrevAssistant(j) ==
    LET K == { k \in 1..(j - 1) :
                 messages[k].type = "assistant" /\ messages[k].ts # None }
    IN  IF K = {} THEN 0 ELSE CHOOSE k \in K : \A l \in K : l <= k

\* the j-th message is a text-bearing user turn, and its timestamp and the
\* one of the assistant turn before it are both times
Timed(j) ==
    /\ messages[j].type = "user" /\ messages[j].has_text
    /\ "sec" \in DOMAIN messages[j].ts
    /\ PrevAssistant(j) # 0
    /\ "sec" \in DOMAIN messages[PrevAssistant(j)].ts

Latency(j) == messages[j].ts.sec - messages[PrevAssistant(j)].ts.sec

\* the samples the first n messages contribute
RECURSIVE Samples(_)
Samples(n) ==
    IF n = 0 THEN << >>
    ELSE Samples(n - 1) \o
           (IF Timed(n) /\ 2 < Latency(n) /\ Latency(n) < 3600
            THEN << Latency(n) >> ELSE << >>)

\* C16: Latency windowing.  Every value in response_times lies strictly
\* between 2 and 3600, and response_times holds, in order, exactly the
\* differences in seconds between a text-bearing user turn and the assistant
\* turn before it that lie in that window: a turn whose difference is <= 2 or
\* >= 3600 (4000 s) adds no sample at all, one with a difference of 5 s adds
\* the sample 5.
C16_LatencyWindow ==
    /\ \A n \in 1..Len(response_times) :
         2 < response_times[n] /\ response_times[n] < 3600
    /\ response_times = Samples(msg_i - 1)
    /\ \A j \in 1..(msg_i - 1) :
         (Timed(j) /\ Latency(j) = 5) =>
           \E n \in 1..Len(response_times) : response_times[n] = 5

\* a user turn 5 s after the assistant turn gave the sample 5, the next one,
\* 4000 s after it, gave none
C16_Witness ==
    /\ metrics_pc = "done"
    /\ messages =
         << [type |-> "assistant", has_text |-> FALSE, ts |-> At(0), usage |-> NoUsage],
            [type |-> "user", has_text |-> TRUE, ts |-> At(5), usage |-> NoUsage],
            [type |-> "user", has_text |-> TRUE, ts |-> At(4000), usage |-> NoUsage] >>
    /\ response_times = << 5 >>

\* the call succeeded and extract_json_object recovered an object from the text
Recovered(resp) == resp.kind = "text" /\ resp.object # None

\* C17: Section mapping.  Every key of results is one of the seven section
\* names or at_a_glance, and no value is null or an empty object.  When a
\* section's future is collected, it gets a key only if its call succeeded
\* and its response held a recoverable object, and the value is that object;
\* a section whose call failed or whose response held no object gets no key.
\* The same holds for at_a_glance.  An entry, once made, stays as it is.
C17_SectionMapping ==
    /\ [](/\ DOMAIN results \subseteq SectionNames \cup {"at_a_glance"}
          /\ \A k \in DOMAIN results : results[k] # None /\ DOMAIN results[k] # {}
          /\ \A n \in SectionNames :
               sec[n].st # "collected" => n \notin DOMAIN results
          /\ "at_a_glance" \in DOMAIN results =>
               /\ glance = "done"
               /\ Recovered(glance_resp)
               /\ results["at_a_glance"] = glance_resp.object
          /\ (glance = "done" /\ ~Recovered(glance_resp)) =>
               "at_a_glance" \notin DOMAIN results)
    /\ [][/\ \A n \in SectionNames :
              (sec[n].st = "finished" /\ sec'[n].st = "collected") =>
                /\ n \in DOMAIN results' =>
                     Recovered(sec[n].resp) /\ results'[n] = sec[n].resp.object
                /\ ~Recovered(sec[n].resp) => n \notin DOMAIN results'
          /\ \A k \in DOMAIN results :
               k \in DOMAIN results' /\ results'[k] = results[k]]_vars

\* one section's call failed, one section returned no object and has no key,
\* one section returned an object and has it under its name
C17_Witness ==
    /\ \E n \in SectionNames : sec[n].st = "finished" /\ sec[n].resp.kind = "error"
    /\ \E n \in SectionNames : sec[n].st = "collected" /\ n \notin DOMAIN results
    /\ \E n \in SectionNames :
         /\ sec[n].st = "collected"
         /\ n \in DOMAIN results
         /\ results[n] = SectionObject

\* C18 as stated: Atomic cache write.  At every instant, a crash in the
\* middle of save_facet included, a cache entry is absent or holds a complete
\* value, never an empty or partially written file.  save_facet truncates
\* the file when it opens it and writes it afterwards.
C18_AtomicCacheWrite ==
    \A s \in SessionIds : cache[s].st \in {"absent", "full"}

\* C19: No cache write race.  In every interleaving of the workers of a
\* batch, no two writes to the same cache entry are in progress at the same
\* time: the only write in progress is the one main() is doing in its
\* as_completed loop, for the future it has just collected.
C19_NoWriteRace ==
    /\ \A j \in Writers : \A k \in Writers :
         j # k => job[j].result.session_id # job[k].result.session_id
    /\ \A j \in Writers :
         /\ pc = "saving"
         /\ saving = job[j].result
         /\ cache[saving.session_id].st = "partial"

\* a facet is being written while the worker of another file with the same
\* session id has its facet ready
C19_Witness ==
    \E j \in Writers : \E k \in DOMAIN job :
        /\ k # j
        /\ job[k].pc = "done"
        /\ Truthy(job[k].result)
        /\ job[k].result.session_id = job[j].result.session_id

\* the sum of f over the finite set S
RECURSIVE SumOver(_, _)
SumOver(f, S) ==
    IF S = {} THEN 0
    ELSE LET x == CHOOSE y \in S : TRUE IN f[x] + SumOver(f, S \ {x})

\* the sessions aggregate_data has been through, and those with a facet
Aggregated == 1..(sm_i - 1)

HasFacet(k) == agg_session_metrics[k].session_id \in DOMAIN agg_facets_map

FacetOfSession(k) == agg_facets_map[agg_session_metrics[k].session_id]

FacetTables(d) ==
    << d.goal_categories, d.outcomes, d.satisfaction, d.helpfulness,
       d.session_types, d.friction, d.success >>

\* C20: Facet-less sessions still count.  The totals of aggregate_data
\* (messages, duration, tokens, tool counts, tool errors, lines) are the sums
\* over every session it has been through, with or without a facet; the
\* tables taken from the facets hold what the sessions with a facet give and
\* nothing else, and going through a session without a facet adds that
\* session's metrics to the totals and leaves the seven tables as they were.
C20_FacetlessCount ==
    /\ [](agg_pc # "idle" =>
          LET sm == agg_session_metrics
              total(F) == SumOver([k \in Aggregated |-> F[k]], Aggregated)
              tools == UNION { DOMAIN sm[k].tool_counts : k \in Aggregated }
              with == { k \in Aggregated : HasFacet(k) }
          IN  /\ data.total_messages =
                   total([k \in Aggregated |-> sm[k].user_message_count])
              /\ data.total_duration_minutes =
                   total([k \in Aggregated |-> sm[k].duration_minutes])
              /\ data.total_input_tokens =
                   total([k \in Aggregated |-> sm[k].input_tokens])
              /\ data.total_output_tokens =
                   total([k \in Aggregated |-> sm[k].output_tokens])
              /\ data.total_tool_errors =
                   total([k \in Aggregated |-> sm[k].tool_errors])
              /\ data.total_lines_added =
                   total([k \in Aggregated |-> sm[k].lines_added])
              /\ data.total_lines_removed =
                   total([k \in Aggregated |-> sm[k].lines_removed])
              /\ DOMAIN data.tool_counts = tools
              /\ \A t \in tools :
                   data.tool_counts[t] =
                     total([k \in Aggregated |-> Get(sm[k].tool_counts, t, 0)])
              /\ DOMAIN data.outcomes = { FacetOfSession(k).outcome : k \in with }
              /\ \A o \in DOMAIN data.outcomes :
                   data.outcomes[o] =
                     Cardinality({ k \in with : FacetOfSession(k).outcome = o })
              /\ with = {} =>
                   \A n \in 1..Len(FacetTables(data)) :
                     DOMAIN FacetTables(data)[n] = {})
    /\ [][(sm_i' = sm_i + 1 /\ ~HasFacet(sm_i)) =>
            LET sm == agg_session_metrics[sm_i]
            IN  /\ FacetTables(data') = FacetTables(data)
                /\ data'.total_messages = data.total_messages + sm.user_message_count
                /\ data'.total_duration_minutes =
                     data.total_duration_minutes + sm.duration_minutes
                /\ data'.total_input_tokens = data.total_input_tokens + sm.input_tokens
                /\ data'.total_output_tokens =
                     data.total_output_tokens + sm.output_tokens
                /\ data'.total_tool_errors = data.total_tool_errors + sm.tool_errors
                /\ data'.total_lines_added = data.total_lines_added + sm.lines_added
                /\ data'.total_lines_removed =
                     data.total_lines_removed + sm.lines_removed]_vars

\* three sessions went in: one without a facet and with tools, errors and
\* lines, two with a facet; the totals hold all three, the outcomes two
C20_Witness ==
    /\ agg_pc = "done"
    /\ agg_session_metrics = << Quiet("s1"), Busy("s2"), Quiet("s1") >>
    /\ DOMAIN agg_facets_map = {"s1"}
    /\ agg_facets_map["s1"] = Tagged(GoodObject, "s1")
    /\ data.total_messages = 7
    /\ data.total_duration_minutes = 92
    /\ data.total_input_tokens = 10
    /\ data.tool_counts = [Bash |-> 2, Edit |-> 1]
    /\ data.total_tool_errors = 1
    /\ data.total_lines_added = 5
    /\ data.outcomes = [fully_achieved |-> 2]

\* C21: Long-session summarization.  A transcript of at most
\* LONG_SESSION_THRESHOLD characters gets no summarization call and is
\* returned unchanged.  A longer one of length L gets ceil(L / CHUNK_SIZE)
\* calls, one at a time, the k-th for the k-th chunk, and what is returned is
\* the per-chunk results joined in chunk order by the separator, the result
\* of a chunk whose call raised or returned no text being the first
\* SUMMARIZE_MAX_TOKENS * 4 characters of the chunk; whatever the calls do, a
\* text is returned.
C21_LongSummarization ==
    LET L == Len(transcript)
        n == (L + CHUNK_SIZE - 1) \div CHUNK_SIZE
        chunk(k) == SubSeq(transcript, (k - 1) * CHUNK_SIZE + 1, Min(k * CHUNK_SIZE, L))
        failed(k) == sum_resps[k].kind = "error" \/ sum_resps[k].text = << >>
        result(k) == IF failed(k)
                     THEN SubSeq(chunk(k), 1, Min(SUMMARIZE_MAX_CHARS, Len(chunk(k))))
                     ELSE sum_resps[k].text
    IN  sum_pc # "idle" =>
          /\ L <= LONG_SESSION_THRESHOLD =>
                /\ sum_sent = << >>
                /\ sum_pc = "done" => sum_result = transcript
          /\ Len(sum_sent) <= n
          /\ \A k \in 1..Len(sum_sent) : sum_sent[k] = chunk(k)
          /\ Len(sum_sent) - Len(sum_resps) \in {0, 1}
          /\ Len(sum_sent) > Len(sum_resps) <=> sum_pc = "wait"
          /\ (sum_pc = "done" /\ L > LONG_SESSION_THRESHOLD) =>
                /\ Len(sum_sent) = n
                /\ Len(sum_resps) = n
                /\ sum_result = Join([k \in 1..n |-> result(k)])

\* a transcript of three chunks: the first call raised, the second returned
\* a summary, the third returned no text
C21_Witness ==
    /\ sum_pc = "done"
    /\ transcript = << "a", "b", "a", "b", "b", "a", "b" >>
    /\ sum_resps = << [kind |-> "error", text |-> << >>],
                      [kind |-> "text", text |-> << "s", "t", "u" >>],
                      [kind |-> "text", text |-> << >>] >>
    /\ sum_result = << "a", "b", SEP, "s", "t", "u", SEP, "b" >>

\* C22: Pools never overlap.  A report-section or at-a-glance call is issued
\* only when no facet-extraction or chunk-summarization call is in flight and
\* every future of every batch has been collected; and while a worker of the
\* extraction pool is submitted or in flight, no report call has been issued
\* in the run.
C22_PoolsNeverOverlap ==
    /\ []((pc = "report" \/ report_calls > 0 \/ glance_calls > 0) =>
            /\ InFlight = {}
            /\ InPool = {}
            /\ \A j \in DOMAIN job : job[j].pc = "collected")
    /\ [](InPool # {} => report_calls = 0 /\ glance_calls = 0)
    /\ [][(report_calls' > report_calls \/ glance_calls' > glance_calls) =>
            /\ InPool = {}
            /\ \A j \in DOMAIN job : job[j].pc = "collected"
            /\ job' = job]_vars

\* the report calls were issued in a run that extracted three sessions in
\* two batches, one of them with chunk summaries
C22_Witness ==
    /\ pc = "done"
    /\ report_calls = Len(REPORT_PROMPTS) + 1
    /\ Len(job) = 3
    /\ \E s \in SessionIds : calls[s].summarize > 0
    /\ \E s \in SessionIds : calls[s].facet > 0

\* C23 as stated: JSON recovery from arbitrary surrounding text.  For a text
\* that holds a complete JSON object, extract_json_object returns that
\* object, also when the text in front of it has an opening brace that begins
\* no object; it returns None only for a text without a complete object.
\* extract_json_object decodes at the first opening brace of the text and
\* nowhere else.
C23_ArbitraryPrefix ==
    json_pc = "done" =>
      /\ json_tree # None => json_result = ValueOf(json_tree)
      /\ json_tree = None => json_result = None

\* C24 as stated: Final prompt content.  The prompt of the at-a-glance call
\* holds an excerpt of every independent section produced in the first phase
\* and of no section that is absent.
C24_EverySectionExcerpted ==
    glance # "idle" =>
      DOMAIN glance_data = { n \in SectionNames : n \in DOMAIN results }

\* C24: Final prompt content.  The prompt of the at-a-glance call holds, after
\* the base data digest, an excerpt of each of the sections project_areas,
\* what_works, friction_analysis, suggestions and on_the_horizon that was
\* produced in the first phase, and of no other section: not of an absent one,
\* not of interaction_style, not of fun_ending.  An excerpt is the start of
\* the section's serialization, cut at the fixed limit.  glance_data is built
\* once, when the call is issued, with every section collected.
C24_FinalPromptContent ==
    /\ [](/\ glance = "idle" => glance_data = NoExcerpts
          /\ glance # "idle" =>
               /\ DOMAIN glance_data =
                    { n \in SectionNames \ {"interaction_style", "fun_ending"} :
                        n \in DOMAIN results }
               /\ \A n \in DOMAIN glance_data :
                    /\ Len(glance_data[n]) <= EXCERPT_CHARS
                    /\ Len(glance_data[n]) <= Len(SectionDump(results[n]))
                    /\ \A k \in 1..Len(glance_data[n]) :
                         glance_data[n][k] = SectionDump(results[n])[k]
                    /\ Len(glance_data[n]) < EXCERPT_CHARS =>
                         glance_data[n] = SectionDump(results[n]))
    /\ [][glance_data' # glance_data =>
            /\ glance = "idle" /\ glance' = "running"
            /\ \A n \in SectionNames : sec[n].st = "collected"]_vars

\* the call is issued with a produced section excerpted and cut, another of
\* the five absent, and interaction_style produced
C24_Witness ==
    /\ glance = "running"
    /\ "interaction_style" \in DOMAIN results
    /\ "what_works" \notin DOMAIN results
    /\ "project_areas" \in DOMAIN glance_data
    /\ Len(glance_data["project_areas"]) = EXCERPT_CHARS
    /\ Len(SectionDump(results["project_areas"])) > EXCERPT_CHARS

\* the categories in the order of their priority, each with its substrings
CategoryOrder ==
    << [cat |-> "Command Failed", any |-> {"exit code"}],
       [cat |-> "User Rejected", any |-> {"rejected", "doesn't want"}],
       [cat |-> "Edit Failed", any |-> {"string to replace not found", "no changes"}],
       [cat |-> "File Changed", any |-> {"modified since read"}],
       [cat |-> "File Too Large", any |-> {"exceeds maximum", "too large"}],
       [cat |-> "File Not Found", any |-> {"file not found", "does not exist"}] >>

\* the positions in CategoryOrder whose substrings occur in the lower-cased message
Matching(words) ==
    { n \in 1..Len(CategoryOrder) : CategoryOrder[n].any \cap Lower(words) # {} }

\* the first matching category, "Other" when there is none
FirstCategory(words) ==
    IF Matching(words) = {} THEN "Other"
    ELSE CategoryOrder[CHOOSE n \in Matching(words) :
                         \A m \in Matching(words) : n <= m].cat

\* the item the scan is at
ItemAt == user_contents[turn_i].items[item_i + 1]

\* the scan classifies the item it is at: an error-flagged tool result with a
\* text message
Classifies ==
    /\ content_pc = "items"
    /\ ItemAt.type = "tool_result" /\ ItemAt.is_error /\ ItemAt.content.str
    /\ item_i' = item_i + 1

\* C25: Error-category priority.  An error-flagged tool result with a text
\* message that the scan classifies is counted under the first category, in
\* the order Command Failed, User Rejected, Edit Failed, File Changed, File
\* Too Large, File Not Found, whose substring(s) occur in the lower-cased
\* message, and under Other when none occurs; it is counted under that
\* category alone, also when it matches several, and the other counts stay.
C25_CategoryPriority ==
    [][Classifies =>
         LET cat == FirstCategory(ItemAt.content.words)
         IN  /\ cat \in DOMAIN tool_error_categories'
             /\ tool_error_categories'[cat] = Get(tool_error_categories, cat, 0) + 1
             /\ \A c \in DOMAIN tool_error_categories' \ {cat} :
                  /\ c \in DOMAIN tool_error_categories
                  /\ tool_error_categories'[c] = tool_error_categories[c]]_vars

\* a message with "exit code" in capitals and "rejected" was counted under
\* Command Failed and nowhere else
C25_Witness ==
    /\ content_pc = "done"
    /\ user_contents =
         << ListContent(<< ToolResult(TRUE, StrContent({"EXIT CODE", "rejected"})) >>) >>
    /\ DOMAIN tool_error_categories = {"Command Failed"}
    /\ tool_error_categories["Command Failed"] = 1

\* the error-flagged tool results of the session, by turn and position
Flagged ==
    { tk \in (1..Len(user_contents)) \X (1..MaxItems + 1) :
        /\ tk[2] <= Len(user_contents[tk[1]].items)
        /\ user_contents[tk[1]].items[tk[2]].type = "tool_result"
        /\ user_contents[tk[1]].items[tk[2]].is_error }

\* C26 as stated: Every flagged tool error is classified.  At the end of the
\* scan the sum of tool_error_categories equals tool_errors and equals the
\* number of error-flagged tool results of the session, wherever a result
\* stands in its content list and whatever the form of its message.
C26_EveryErrorClassified ==
    content_pc = "done" =>
      /\ tool_errors = Cardinality(Flagged)
      /\ SumOver(tool_error_categories, DOMAIN tool_error_categories) = tool_errors

\* the assistant turns of the session, and the text-bearing user turns with
\* a timestamp that parses
AssistantTurns == { n \in 1..Len(messages) : messages[n].type = "assistant" }
StampedTurns ==
    { n \in 1..Len(messages) :
        messages[n].type = "user" /\ messages[n].has_text /\ Parses(messages[n].ts) }

\* a usage counter of each message, 0 where the usage has none
Counter(name) == [ n \in 1..Len(messages) |-> Get(messages[n].usage, name, 0) ]

\* C27: Non-negative metrics.  Whatever the order of the timestamps,
\* duration_minutes is never negative: it is 0 when no text-bearing user turn
\* has a timestamp that parses and at least 1 otherwise.  The token totals
\* are never negative, and at the end they are the sums of the counters of
\* the assistant turns alone.
C27_NonNegativeMetrics ==
    /\ duration_minutes >= 0
    /\ input_tokens >= 0
    /\ output_tokens >= 0
    /\ metrics_pc = "done" =>
         /\ StampedTurns = {} => duration_minutes = 0
         /\ StampedTurns # {} => duration_minutes >= 1
         /\ input_tokens = SumOver(Counter("input_tokens"), AssistantTurns)
         /\ output_tokens = SumOver(Counter("output_tokens"), AssistantTurns)

\* the second user turn is stamped more than an hour before the first, and
\* the only assistant turn has counted tokens
C27_Witness ==
    /\ metrics_pc = "done"
    /\ Len(messages) = 3
    /\ messages[1].type = "assistant" /\ messages[1].usage = FullUsage
    /\ messages[2].type = "user" /\ messages[2].has_text /\ messages[2].ts = At(4000)
    /\ messages[3].type = "user" /\ messages[3].has_text /\ messages[3].ts = At(0)
    /\ duration_minutes = 1
    /\ input_tokens = 3
    /\ output_tokens = 1

\* the pooled samples in ascending order, sorted by counting: the value at a
\* position is the one with fewer than that many samples below it and at
\* least that many samples at or below it
Pool ==
    LET sessions_seen == 1..Len(agg_session_metrics)
        samples == { sk \in sessions_seen \X (1..2) :
                       sk[2] <= Len(agg_session_metrics[sk[1]].user_response_times) }
        value(sk) == agg_session_metrics[sk[1]].user_response_times[sk[2]]
        below(v) == Cardinality({ sk \in samples : value(sk) < v })
        upto(v) == Cardinality({ sk \in samples : value(sk) <= v })
    IN  [ n \in 1..Cardinality(samples) |->
            CHOOSE v \in { value(sk) : sk \in samples } : below(v) < n /\ n <= upto(v) ]

\* C28 as stated: Pooled median.  median_response_time of the aggregate is the
\* middle value of the sorted pool of the latency samples of all sessions for
\* an odd number of samples, the mean of the two middle values for an even
\* number (stated here for twice the median), and 0 for an empty pool.
C28_PooledMedian ==
    agg_pc = "done" =>
      LET n == Len(Pool)
      IN  /\ n = 0 => data.median_response_time = 0
          /\ n % 2 = 1 => data.median_response_time = Pool[(n + 1) \div 2]
          /\ (n > 0 /\ n % 2 = 0) =>
               2 * data.median_response_time = Pool[n \div 2] + Pool[(n \div 2) + 1]

\* C29 as stated: One latency sample per assistant turn.  A user turn adds a
\* latency sample only when no other text-bearing user turn lies between it
\* and the assistant turn it is measured against, so the samples of a session
\* never outnumber its assistant turns.
C29_OneSamplePerAssistantTurn ==
    /\ [](Len(response_times) <=
            Cardinality({ n \in AssistantTurns : n < msg_i }))
    /\ [][Len(response_times') > Len(response_times) =>
            ~\E k \in (PrevAssistant(msg_i) + 1)..(msg_i - 1) :
                messages[k].type = "user" /\ messages[k].has_text]_vars

\* the session ids of a list of metrics
SessionIdsOf(ms) == { ms[n].session_id : n \in 1..Len(ms) }

\* C30: Facets never outnumber sessions.  Every key of facets_map is the
\* session id of a session in all_metrics, and every key of the facet map
\* handed to aggregate_data is the session id of a session in the metrics
\* list handed to it; so sessions_with_facets <= total_sessions, and in the
\* final summary sessions scanned >= sessions analyzed >= facets extracted.
C30_FacetsNeverOutnumberSessions ==
    /\ DOMAIN facets_map \subseteq SessionIdsOf(all_metrics)
    /\ DOMAIN filtered_facets \subseteq SessionIdsOf(filtered_metrics)
    /\ agg_data.sessions_with_facets <= agg_data.total_sessions
    /\ pc \in {"report", "done"} =>
         /\ agg_data.total_sessions = Len(filtered_metrics)
         /\ agg_data.sessions_with_facets = Cardinality(DOMAIN filtered_facets)
         /\ Len(sessions) >= Len(filtered_metrics)
         /\ Len(filtered_metrics) >= Cardinality(DOMAIN filtered_facets)

\* a finished run that scanned more sessions than it analyzed and analyzed
\* more than it has facets for, with a warmup-only session filtered out
C30_Witness ==
    /\ pc = "done"
    /\ Len(sessions) > Len(filtered_metrics)
    /\ Len(filtered_metrics) > Cardinality(DOMAIN filtered_facets)
    /\ Cardinality(DOMAIN filtered_facets) >= 1
    /\ Len(all_metrics) > Len(filtered_metrics)

====
